---- MODULE Spec2Model ----
(***************************************************************************)
(* A model of GMLReader (ogr/ogrsf_frmts/gml/gmlreader.cpp): the feature   *)
(* class registry, the read-state stack, the two XML back ends (Xerces,    *)
(* driven by parseFirst/parseNext, and Expat, fed buffer by buffer), the   *)
(* NextFeature drivers, PrescanForSchema and the schema sidecar loader.    *)
(*                                                                         *)
(* Strings are sequences of one-character strings, so that the suffix and  *)
(* case-insensitive comparisons of the code are computed, not assumed.     *)
(* A pointer that may be NULL is a sequence of length 0 (NULL) or 1.       *)
(***************************************************************************)
EXTENDS Integers, Sequences, FiniteSets, TLC

(***************************************************************************)
(* Bounds of the model.                                                    *)
(***************************************************************************)
\* Number of items (feature members, stray elements) in a document body.
MaxItems == 2
\* Largest number of tokens one VSIFReadL of the Expat driver returns.
MaxBuf == 5
\* Number of properties a class is let grow to in SpecProp.
MaxProps == 3
\* Number of read states on the stack in SpecProp.
MaxDepth == 2

(***************************************************************************)
(* Strings.                                                                *)
(***************************************************************************)
Upper == <<"A","B","C","D","E","F","G","H","I","J","K","L","M",
           "N","O","P","Q","R","S","T","U","V","W","X","Y","Z">>
Lower == <<"a","b","c","d","e","f","g","h","i","j","k","l","m",
           "n","o","p","q","r","s","t","u","v","w","x","y","z">>

\* toupper()/tolower() folding used by EQUAL (strcasecmp).
Fold(c) == IF \E i \in 1..Len(Upper) : Upper[i] = c
           THEN Lower[CHOOSE i \in 1..Len(Upper) : Upper[i] = c]
           ELSE c

\* EQUAL(a,b): case-insensitive string equality.
EQUAL(a, b) == /\ Len(a) = Len(b)
               /\ \A i \in 1..Len(a) : Fold(a[i]) = Fold(b[i])

\* The string starting n characters before the end of s (s + strlen(s) - n),
\* for n <= strlen(s).
Suffix(s, n) == SubSeq(s, Len(s) - n + 1, Len(s))

\* strchr(s, '|') != NULL
HasBar(s) == \E i \in 1..Len(s) : s[i] = "|"

\* strrchr(s, '|') + 1
AfterLastBar(s) ==
    LET i == CHOOSE j \in 1..Len(s) :
                 s[j] = "|" /\ \A k \in (j+1)..Len(s) : s[k] # "|"
    IN  SubSeq(s, i + 1, Len(s))

s_dane == <<"d","a","n","e">>
s_member == <<"m","e","m","b","e","r">>
s_members == <<"m","e","m","b","e","r","s">>
s_layer == <<"_","l","a","y","e","r">>
s_feature == <<"_","f","e","a","t","u","r","e">>
s_GeocodeResponseList == <<"G","e","o","c","o","d","e","R","e","s","p","o","n","s","e","L","i","s","t">>
s_GeocodedAddress == <<"G","e","o","c","o","d","e","d","A","d","d","r","e","s","s">>
s_DetermineRouteResponse == <<"D","e","t","e","r","m","i","n","e","R","o","u","t","e","R","e","s","p","o","n","s","e">>
s_RouteInstructionsList == <<"R","o","u","t","e","I","n","s","t","r","u","c","t","i","o","n","s","L","i","s","t">>
s_RouteInstruction == <<"R","o","u","t","e","I","n","s","t","r","u","c","t","i","o","n">>

\* Element names used by the documents of the model.
s_FC == <<"F","C">>
s_featureMember == <<"f","e","a","t","u","r","e","M","e","m","b","e","r">>
s_A == <<"A">>
s_B == <<"B">>
s_n == <<"n">>


NULL == <<>>

Max(a, b) == IF a < b THEN b ELSE a
Min(a, b) == IF a < b THEN a ELSE b

(***************************************************************************)
(* Documents.  A document is a sequence of tokens, the unit in which the   *)
(* tokenizers deliver events: a start tag, an end tag, character data, or  *)
(* "err", a place where the text is not well-formed XML.                   *)
(***************************************************************************)
TStart(name, fid) == [t |-> "start", name |-> name, fid |-> fid, v |-> <<>>]
TEnd(name) == [t |-> "end", name |-> name, fid |-> NULL, v |-> <<>>]
TChars(v) == [t |-> "chars", name |-> <<>>, fid |-> NULL, v |-> v]
TErr == [t |-> "err", name |-> <<>>, fid |-> NULL, v |-> <<>>]
\* A geometry element with its whole subtree: v holds what the geometry
\* collaborator reads from it.
TGeom(g) == [t |-> "geom", name |-> <<>>, fid |-> NULL, v |-> << g >>]

\* Names of spatial reference systems.
s_EPSG == << "E", "P", "S", "G", ":" >>
s_4326 == << "4", "3", "2", "6" >>
s_urnEPSG ==
    << "u", "r", "n", ":", "o", "g", "c", ":", "d", "e", "f", ":",
       "c", "r", "s", ":", "E", "P", "S", "G", ":", ":" >>
s_EPSG4326 == s_EPSG \o s_4326
s_epsg4326 == << "e", "p", "s", "g", ":" >> \o s_4326
s_urn4326 == s_urnEPSG \o s_4326

\* The geometry elements of the documents: what the geometry collaborator
\* builds from the element (type, envelope as (xmin, xmax, ymin, ymax), or
\* no envelope for an empty geometry) and its srsName attribute.
Geom(type, srsName, env) == [type |-> type, srsName |-> srsName, env |-> env]
g_Point == Geom("Point", NULL, << << 1, 1, 2, 2 >> >>)
g_PointSRS == Geom("Point", << s_urn4326 >>, << << 1, 1, 2, 2 >> >>)
g_Line == Geom("LineString", NULL, << << 0, 3, 1, 4 >> >>)
g_Empty == Geom("Point", NULL, NULL)

\* The items a document body is made of.
\*   fA    <featureMember><A fid="f"></A></featureMember>
\*   fB    <featureMember><B><n>1</n></B></featureMember>
\*   nest  <featureMember><A><featureMember><B></B></featureMember></A></featureMember>
\*   junk  <A></A>   (an A that is not inside a member element)
\*   fBa   <featureMember><B><n>a</n></B></featureMember>
\*   gP    <featureMember><A><Point>..</Point></A></featureMember>
\*   gS    the same, the Point having the attribute srsName
\*   gL    <featureMember><A><LineString>..</LineString></A></featureMember>
\*   gE    <featureMember><A><Point/></A></featureMember>  (an empty geometry)
\*   gLB   <featureMember><B><LineString>..</LineString></B></featureMember>
\* ItemKinds are the items of the documents of Spec; fBa is an item of the
\* documents of SpecLoaded, gP, gS and gL are items of those of SpecGeo,
\* gE and gLB of those of SpecExt.
ItemKinds == {"fA", "fB", "nest", "junk"}

ItemTokens(k) ==
    CASE k = "fA" -> << TStart(s_featureMember, NULL), TStart(s_A, <<"f">>),
                        TEnd(s_A), TEnd(s_featureMember) >>
      [] k = "fB" -> << TStart(s_featureMember, NULL), TStart(s_B, NULL),
                        TStart(s_n, NULL), TChars(<<"1">>), TEnd(s_n),
                        TEnd(s_B), TEnd(s_featureMember) >>
      [] k = "nest" -> << TStart(s_featureMember, NULL), TStart(s_A, NULL),
                          TStart(s_featureMember, NULL), TStart(s_B, NULL),
                          TEnd(s_B), TEnd(s_featureMember),
                          TEnd(s_A), TEnd(s_featureMember) >>
      [] k = "junk" -> << TStart(s_A, NULL), TEnd(s_A) >>
      [] k = "gP" -> << TStart(s_featureMember, NULL), TStart(s_A, NULL),
                        TGeom(g_Point), TEnd(s_A), TEnd(s_featureMember) >>
      [] k = "gS" -> << TStart(s_featureMember, NULL), TStart(s_A, NULL),
                        TGeom(g_PointSRS), TEnd(s_A), TEnd(s_featureMember) >>
      [] k = "gL" -> << TStart(s_featureMember, NULL), TStart(s_A, NULL),
                        TGeom(g_Line), TEnd(s_A), TEnd(s_featureMember) >>
      [] k = "gE" -> << TStart(s_featureMember, NULL), TStart(s_A, NULL),
                        TGeom(g_Empty), TEnd(s_A), TEnd(s_featureMember) >>
      [] k = "gLB" -> << TStart(s_featureMember, NULL), TStart(s_B, NULL),
                         TGeom(g_Line), TEnd(s_B), TEnd(s_featureMember) >>
      [] k = "fBa" -> << TStart(s_featureMember, NULL), TStart(s_B, NULL),
                         TStart(s_n, NULL), TChars(<<"a">>), TEnd(s_n),
                         TEnd(s_B), TEnd(s_featureMember) >>

\* How a document ends: "ok" closes the root element; "err" has malformed
\* text after the items; "open" breaks off (malformed text) inside a feature.
Endings == {"ok", "err", "open"}

EndTokens(e) ==
    CASE e = "ok" -> << TEnd(s_FC) >>
      [] e = "err" -> << TErr >>
      [] e = "open" -> << TStart(s_featureMember, NULL), TStart(s_A, NULL), TErr >>

RECURSIVE BodyTokens(_)
BodyTokens(items) ==
    IF items = <<>> THEN <<>>
    ELSE ItemTokens(Head(items)) \o BodyTokens(Tail(items))

DocTokens(items, e) == << TStart(s_FC, NULL) >> \o BodyTokens(items) \o EndTokens(e)

ItemSeqs == UNION { [1..n -> ItemKinds] : n \in 0..MaxItems }

Docs == { DocTokens(items, e) : items \in ItemSeqs, e \in Endings }

\* The files of the file system: the GML document and a name that does not
\* exist.
FileNames == {"doc.gml", "missing.gml"}
FileExists(name) == name = "doc.gml"

(***************************************************************************)
(* Records of the program.                                                 *)
(***************************************************************************)
\* new GMLFeatureClass(pszName): name and element name are pszName, the
\* schema is unlocked, the feature count is the sentinel -1, the geometry
\* type is not yet set, there are no extents and no SRS name.
NewFeatureClass(pszName) ==
    [ m_pszName |-> pszName, m_pszElementName |-> pszName,
      m_papoProperty |-> <<>>, m_bSchemaLocked |-> FALSE,
      m_nFeatureCount |-> -1,
      m_nGeometryType |-> "Unknown", m_Extents |-> NULL,
      m_pszSRSName |-> NULL, m_bSRSNameConsistent |-> TRUE ]

\* new GMLPropertyDefn(pszName, pszSrcElement): the type is not yet known.
NewPropertyDefn(pszName, pszSrcElement) ==
    [ m_pszName |-> pszName, m_pszSrcElement |-> pszSrcElement,
      m_eType |-> "Untyped" ]

\* new GMLFeature(poClass); start and closed record the position in the
\* document of the feature's start tag and of its end tag (0: not closed).
NewFeature(iClass, start) ==
    [ m_poClass |-> iClass, m_pszFID |-> NULL, m_papszProperty |-> <<>>,
      m_papsGeometry |-> <<>>, start |-> start, closed |-> 0 ]

\* new GMLReadState()
NewReadState == [ m_poFeature |-> NULL, m_papszPathComponents |-> <<>> ]

\* new GMLExpatHandler / GMLXercesHandler
NewHandler == [ m_pszCurField |-> NULL, m_nIgnoreDepth |-> 0 ]

\* What is kept of a call that has returned: the operation and its result.
\* The operation is the first field, so that the records of two calls of
\* different operations, whose results are of different kinds, differ in
\* the first field compared.
LastCall(op, ret) == [ op |-> op, ret |-> ret ]

\* GMLReadState::GetLastComponent()
GetLastComponent(st) ==
    IF Len(st.m_papszPathComponents) > 0
    THEN st.m_papszPathComponents[Len(st.m_papszPathComponents)]
    ELSE <<>>

\* GMLReadState::m_pszPath: the components joined by '|'.
RECURSIVE JoinPath(_)
JoinPath(comps) ==
    IF comps = <<>> THEN <<>>
    ELSE IF Len(comps) = 1 THEN comps[1]
    ELSE comps[1] \o <<"|">> \o JoinPath(Tail(comps))

\* The state on top of the stack (m_poState); the stack is kept bottom first.
Top(r) == r.m_poState[Len(r.m_poState)]

SetTop(r, st) == [r EXCEPT !.m_poState[Len(r.m_poState)] = st]


(***************************************************************************)
(* The feature class registry.                                             *)
(***************************************************************************)
GetClassCount(r) == Len(r.m_papoClass)

\* GetClass(const char *pszName): the index of the first class whose name
\* is pszName, case-insensitively; 0 when there is none (NULL).
GetClassByName(r, pszName) ==
    IF \E i \in 1..GetClassCount(r) : EQUAL(r.m_papoClass[i].m_pszName, pszName)
    THEN CHOOSE i \in 1..GetClassCount(r) :
             /\ EQUAL(r.m_papoClass[i].m_pszName, pszName)
             /\ \A j \in 1..(i-1) : ~EQUAL(r.m_papoClass[j].m_pszName, pszName)
    ELSE 0

\* AddClass(poNewClass).  CPLAssert( GetClass(name) == NULL ) is compiled
\* out of a release build; assertFailed records that it would have fired.
AddClass(r, poNewClass) ==
    [r EXCEPT !.m_papoClass = Append(@, poNewClass),
              !.assertFailed = @ \/ GetClassByName(r, poNewClass.m_pszName) # 0]

\* ClearClasses()
ClearClasses(r) == [r EXCEPT !.m_papoClass = <<>>]

(***************************************************************************)
(* The read-state stack.                                                   *)
(***************************************************************************)
\* PushState(poState)
PushState(r, poState) == [r EXCEPT !.m_poState = Append(@, poState)]

\* PopState with the queue used as a stack: the feature goes in front of
\* the features that wait in ppoFeatureTab.
PopStateLIFO(r) ==
    IF r.m_poState = <<>> THEN r
    ELSE LET st == Top(r) IN
         [r EXCEPT
            !.m_poCompleteFeature =
                IF ~r.bUseExpatReader /\ st.m_poFeature # NULL /\ @ = NULL
                THEN st.m_poFeature ELSE @,
            !.ppoFeatureTab =
                IF r.bUseExpatReader /\ st.m_poFeature # NULL
                THEN SubSeq(@, 1, r.nFeatureTabIndex) \o st.m_poFeature
                     \o SubSeq(@, r.nFeatureTabIndex + 1, Len(@))
                ELSE @,
            !.nFeatureTabLength =
                IF r.bUseExpatReader /\ st.m_poFeature # NULL THEN @ + 1 ELSE @,
            !.m_poState = SubSeq(@, 1, Len(@) - 1)]

\* PopState().  A feature in the popped state goes to m_poCompleteFeature
\* (Xerces, when the slot is free) or to the end of ppoFeatureTab (Expat);
\* a feature left in the state is deleted with it (bOverflow records that
\* this happened to the feature of a feature element that closed).
PopState(r) ==
    IF r.m_poState = <<>> THEN r
    ELSE LET st == Top(r) IN
         [r EXCEPT
            !.m_poCompleteFeature =
                IF ~r.bUseExpatReader /\ st.m_poFeature # NULL /\ @ = NULL
                THEN st.m_poFeature ELSE @,
            !.ppoFeatureTab =
                IF r.bUseExpatReader /\ st.m_poFeature # NULL
                THEN @ \o st.m_poFeature ELSE @,
            !.nFeatureTabLength =
                IF r.bUseExpatReader /\ st.m_poFeature # NULL THEN @ + 1 ELSE @,
            !.bOverflow =
                \/ @
                \/ /\ ~r.bUseExpatReader /\ st.m_poFeature # NULL
                   /\ r.m_poCompleteFeature # NULL
                   /\ st.m_poFeature[1].closed # 0,
            !.m_poState = SubSeq(@, 1, Len(@) - 1)]

(***************************************************************************)
(* IsFeatureElement, IsAttributeElement, PushFeature.                      *)
(***************************************************************************)
\* The string at pszLast + nLen - 7.  For nLen = 6 it starts one byte
\* before the string, at a byte (before) that is not the string's.
Tail7(pszLast, before) ==
    IF Len(pszLast) >= 7 THEN Suffix(pszLast, 7) ELSE << before >> \o pszLast

\* The last step of IsFeatureElement: with the class list unlocked any
\* element will do, otherwise some class must have that element name.
ClassListAccepts(r, pszElement) ==
    \/ ~r.m_bClassListLocked
    \/ \E i \in 1..GetClassCount(r) :
           EQUAL(pszElement, r.m_papoClass[i].m_pszElementName)

\* The rules of IsFeatureElement without the test for RouteInstructionsList
\* under DetermineRouteResponse: every child of that element passes.
IsFeatureContextAnyChild(pszLast, pszElement, before) ==
    IF pszLast = s_dane THEN TRUE
    ELSE IF pszLast = s_GeocodeResponseList /\ pszElement = s_GeocodedAddress
    THEN TRUE
    ELSE IF pszLast = s_DetermineRouteResponse
    THEN TRUE
    ELSE IF pszElement = s_RouteInstruction /\ pszLast = s_RouteInstructionsList
    THEN TRUE
    ELSE IF /\ Len(pszLast) > 6 /\ Suffix(pszLast, 6) = s_layer
            /\ Len(pszElement) > 8 /\ Suffix(pszElement, 8) = s_feature
    THEN TRUE
    ELSE ~( \/ Len(pszLast) < 6
            \/ ~( \/ EQUAL(Suffix(pszLast, 6), s_member)
                  \/ EQUAL(Tail7(pszLast, before), s_members) ) )

\* The rules of IsFeatureElement on the parent element pszLast that come
\* before the class list is looked at.
IsFeatureContext(pszLast, pszElement, before) ==
    IF pszLast = s_dane THEN TRUE
    ELSE IF pszLast = s_GeocodeResponseList /\ pszElement = s_GeocodedAddress
    THEN TRUE
    ELSE IF pszLast = s_DetermineRouteResponse
    THEN pszElement # s_RouteInstructionsList
    ELSE IF pszElement = s_RouteInstruction /\ pszLast = s_RouteInstructionsList
    THEN TRUE
    ELSE IF /\ Len(pszLast) > 6 /\ Suffix(pszLast, 6) = s_layer
            /\ Len(pszElement) > 8 /\ Suffix(pszElement, 8) = s_feature
    THEN TRUE
    ELSE ~( \/ Len(pszLast) < 6
            \/ ~( \/ EQUAL(Suffix(pszLast, 6), s_member)
                  \/ EQUAL(Tail7(pszLast, before), s_members) ) )

\* IsFeatureElement(pszElement), before being the byte in front of the
\* last path component.
IsFeatureElement(r, pszElement, before) ==
    /\ IsFeatureContext(GetLastComponent(Top(r)), pszElement, before)
    /\ ClassListAccepts(r, pszElement)

\* IsAttributeElement(pszElement)
IsAttributeElement(r, pszElement) ==
    LET st == Top(r) IN
    IF st.m_poFeature = NULL THEN FALSE
    ELSE LET poClass == r.m_papoClass[st.m_poFeature[1].m_poClass]
             osElemPath == IF Len(st.m_papszPathComponents) = 0 THEN pszElement
                           ELSE JoinPath(st.m_papszPathComponents)
                                \o <<"|">> \o pszElement
         IN  IF ~poClass.m_bSchemaLocked THEN TRUE
             ELSE \E i \in 1..Len(poClass.m_papoProperty) :
                      poClass.m_papoProperty[i].m_pszSrcElement = osElemPath

\* The index PushFeature's loop ends with: the first class whose element
\* name is pszElement, or GetClassCount()+1 when there is none.
FindClassByElement(r, pszElement) ==
    IF \E i \in 1..GetClassCount(r) :
           EQUAL(pszElement, r.m_papoClass[i].m_pszElementName)
    THEN CHOOSE i \in 1..GetClassCount(r) :
             /\ EQUAL(pszElement, r.m_papoClass[i].m_pszElementName)
             /\ \A j \in 1..(i-1) :
                    ~EQUAL(pszElement, r.m_papoClass[j].m_pszElementName)
    ELSE GetClassCount(r) + 1

\* A PushFeature whose read state is pushed without the feature.
PushFeatureNoFeature(r, iClass, pszFID, start) == PushState(r, NewReadState)

\* The second half of PushFeature: the feature of class iClass and its
\* read state.
PushFeatureOfClass(r, iClass, pszFID, start) ==
    PushState(r, [NewReadState EXCEPT !.m_poFeature =
                      << [NewFeature(iClass, start) EXCEPT !.m_pszFID = pszFID] >>])

\* PushFeature(pszElement, pszFID); start is the position of the start tag.
\* CPLAssert( !IsClassListLocked() ) is recorded in assertFailed.
PushFeature(r, pszElement, pszFID, start) ==
    IF FindClassByElement(r, pszElement) = GetClassCount(r) + 1
    THEN PushFeatureOfClass(
             AddClass([r EXCEPT !.assertFailed = @ \/ r.m_bClassListLocked],
                      NewFeatureClass(pszElement)),
             GetClassCount(r) + 1, pszFID, start)
    ELSE PushFeatureOfClass(r, FindClassByElement(r, pszElement), pszFID, start)


(***************************************************************************)
(* SetFeatureProperty.                                                     *)
(***************************************************************************)
\* GMLFeatureClass::GetPropertyIndex(pszName): the first property with that
\* field name, 0 when there is none (-1 in the code).
GetPropertyIndex(poClass, pszName) ==
    IF \E i \in 1..Len(poClass.m_papoProperty) :
           EQUAL(pszName, poClass.m_papoProperty[i].m_pszName)
    THEN CHOOSE i \in 1..Len(poClass.m_papoProperty) :
             /\ EQUAL(pszName, poClass.m_papoProperty[i].m_pszName)
             /\ \A j \in 1..(i-1) :
                    ~EQUAL(pszName, poClass.m_papoProperty[j].m_pszName)
    ELSE 0

\* GMLFeatureClass::AddProperty(poDefn): refuses a field name it has.
AddProperty(poClass, poDefn) ==
    IF GetPropertyIndex(poClass, poDefn.m_pszName) # 0 THEN poClass
    ELSE [poClass EXCEPT !.m_papoProperty = Append(@, poDefn)]

\* GMLFeature::SetProperty(iIndex, pszValue): the value array grows to the
\* index, the new places being NULL.
SetProperty(poFeature, iIndex, pszValue) ==
    LET n == Len(poFeature.m_papszProperty)
        grown == IF iIndex > n
                 THEN poFeature.m_papszProperty \o [i \in 1..(iIndex - n) |-> NULL]
                 ELSE poFeature.m_papszProperty
    IN  [poFeature EXCEPT !.m_papszProperty = [grown EXCEPT ![iIndex] = << pszValue >>]]

RECURSIVE UniqueFieldName(_, _)
\* while( poClass->GetProperty(osFieldName) != NULL ) osFieldName += "_";
UniqueFieldName(poClass, osFieldName) ==
    IF GetPropertyIndex(poClass, osFieldName) # 0
    THEN UniqueFieldName(poClass, osFieldName \o <<"_">>)
    ELSE osFieldName

\* The field name without the fall back to the whole path: the element
\* itself, or the part after the last '|'.
FirstFieldNameLast(poClass, pszElement) ==
    IF ~HasBar(pszElement) THEN pszElement ELSE AfterLastBar(pszElement)

\* The field name SetFeatureProperty starts from: the element itself, or
\* the part after the last '|' unless a field has that name.
FirstFieldName(poClass, pszElement) ==
    IF ~HasBar(pszElement) THEN pszElement
    ELSE IF GetPropertyIndex(poClass, AfterLastBar(pszElement)) # 0
    THEN pszElement
    ELSE AfterLastBar(pszElement)

\* SetFeatureProperty's loop without its strcmp: no property is found.
FindPropertyNone(poClass, pszElement) == Len(poClass.m_papoProperty) + 1

\* The index SetFeatureProperty's loop ends with: the first property whose
\* source element is pszElement, or the property count + 1.
FindProperty(poClass, pszElement) ==
    IF \E i \in 1..Len(poClass.m_papoProperty) :
           poClass.m_papoProperty[i].m_pszSrcElement = pszElement
    THEN CHOOSE i \in 1..Len(poClass.m_papoProperty) :
             /\ poClass.m_papoProperty[i].m_pszSrcElement = pszElement
             /\ \A j \in 1..(i-1) :
                    poClass.m_papoProperty[j].m_pszSrcElement # pszElement
    ELSE Len(poClass.m_papoProperty) + 1

\* The class of the feature of the top state, and its place in the registry.
TopClassIndex(r) == Top(r).m_poFeature[1].m_poClass
TopClass(r) == r.m_papoClass[Top(r).m_poFeature[1].m_poClass]

\* The syntax of a value: blank, a signed decimal integer, a real, or
\* anything else.  The values of this model hold a single token, so the
\* list types are not reached.
Digits == { "0", "1", "2", "3", "4", "5", "6", "7", "8", "9" }
Unsigned(v) == IF v # <<>> /\ v[1] \in { "-", "+" } THEN Tail(v) ELSE v
IsBlankValue(v) == \A i \in 1..Len(v) : v[i] = " "
IsIntegerValue(v) ==
    /\ Unsigned(v) # <<>>
    /\ \A i \in 1..Len(Unsigned(v)) : Unsigned(v)[i] \in Digits
IsRealValue(v) ==
    /\ \A i \in 1..Len(Unsigned(v)) : Unsigned(v)[i] \in Digits \cup { "." }
    /\ \E i \in 1..Len(Unsigned(v)) : Unsigned(v)[i] \in Digits
    /\ Cardinality({ i \in 1..Len(Unsigned(v)) : Unsigned(v)[i] = "." }) <= 1

\* GMLPropertyDefn::AnalysePropertyValue(pszValue): the type is widened to
\* hold the value, and never narrowed.
AnalysePropertyValue(poDefn, pszValue) ==
    IF IsBlankValue(pszValue) THEN poDefn
    ELSE IF IsIntegerValue(pszValue)
    THEN IF poDefn.m_eType = "Untyped"
         THEN [poDefn EXCEPT !.m_eType = "Integer"] ELSE poDefn
    ELSE IF IsRealValue(pszValue)
    THEN IF poDefn.m_eType \in { "Untyped", "Integer" }
         THEN [poDefn EXCEPT !.m_eType = "Real"] ELSE poDefn
    ELSE [poDefn EXCEPT !.m_eType = "String"]

\* if( !poClass->IsSchemaLocked() )
\*     poClass->GetProperty(iProperty)->AnalysePropertyValue(...)
AnalyseStored(r, iProperty, pszValue) ==
    IF TopClass(r).m_bSchemaLocked THEN r
    ELSE [r EXCEPT !.m_papoClass[TopClassIndex(r)].m_papoProperty[iProperty] =
              AnalysePropertyValue(@, pszValue)]

\* The last steps of SetFeatureProperty: the value is stored in the feature
\* of the top state, and the type of the property is widened to hold it
\* unless the schema of the class is locked.
StoreProperty(r, iProperty, pszValue) ==
    AnalyseStored(
        SetTop(r, [Top(r) EXCEPT !.m_poFeature =
                       << SetProperty(Top(r).m_poFeature[1], iProperty,
                                      pszValue) >>]),
        iProperty, pszValue)

\* The branch of SetFeatureProperty for an element path no property has,
\* without the renaming loop: the name after the last '|' is used as it
\* is, and the property is appended whatever its name.
NewPropertyNoRename(r, pszElement, pszValue) ==
    IF TopClass(r).m_bSchemaLocked THEN r
    ELSE StoreProperty(
             [r EXCEPT !.m_papoClass[TopClassIndex(r)].m_papoProperty =
                  Append(@, NewPropertyDefn(
                                IF HasBar(pszElement) THEN AfterLastBar(pszElement)
                                ELSE pszElement,
                                pszElement))],
             Len(TopClass(r).m_papoProperty) + 1, pszValue)

\* if( poClass->AddProperty( poPDefn ) < 0 ) return; and, the property
\* added, the value is stored at the new index.
AddAndStore(r, poPDefn, pszValue) ==
    IF GetPropertyIndex(TopClass(r), poPDefn.m_pszName) # 0 THEN r
    ELSE StoreProperty(
             [r EXCEPT !.m_papoClass[TopClassIndex(r)] = AddProperty(@, poPDefn)],
             Len(TopClass(r).m_papoProperty) + 1, pszValue)

\* The branch of SetFeatureProperty for an element path no property has,
\* without the test of the schema lock.
NewPropertyUnlocked(r, pszElement, pszValue) ==
    AddAndStore(r,
                NewPropertyDefn(
                    UniqueFieldName(TopClass(r),
                                    FirstFieldName(TopClass(r), pszElement)),
                    pszElement),
                pszValue)

\* The branch of SetFeatureProperty for an element path no property has.
NewProperty(r, pszElement, pszValue) ==
    IF TopClass(r).m_bSchemaLocked THEN r
    ELSE AddAndStore(r,
                     NewPropertyDefn(
                         UniqueFieldName(TopClass(r),
                                         FirstFieldName(TopClass(r), pszElement)),
                         pszElement),
                     pszValue)

\* SetFeatureProperty(pszElement, pszValue) on the feature of the top state.
SetFeatureProperty(r, pszElement, pszValue) ==
    IF FindProperty(TopClass(r), pszElement) = Len(TopClass(r).m_papoProperty) + 1
    THEN NewProperty(r, pszElement, pszValue)
    ELSE StoreProperty(r, FindProperty(TopClass(r), pszElement), pszValue)

(***************************************************************************)
(* The element handler: what the tokenizer's events do to the reader.      *)
(***************************************************************************)
Handler(r) == r.m_poGMLHandler[1]

PushPath(r, pszElement) ==
    SetTop(r, [Top(r) EXCEPT !.m_papszPathComponents = Append(@, pszElement)])

PopPath(r) ==
    SetTop(r, [Top(r) EXCEPT !.m_papszPathComponents = SubSeq(@, 1, Len(@) - 1)])

\* The byte in memory in front of a path component: not the string's own.
\* It is read only for a parent element of six characters that is not
\* "member"; no document of this model has one.
ByteBefore == "?"

\* start_element(E, A); at is the position of the tag in the document.
startElement(r, pszName, pszFID, at) ==
    IF Handler(r).m_nIgnoreDepth > 0
    THEN [r EXCEPT !.m_poGMLHandler[1].m_nIgnoreDepth = @ + 1]
    ELSE IF IsFeatureElement(r, pszName, ByteBefore)
    THEN IF r.m_pszFilteredClassName # NULL
            /\ r.m_pszFilteredClassName[1] # pszName
         THEN [r EXCEPT !.m_poGMLHandler[1].m_nIgnoreDepth = 1]
         ELSE PushFeature([r EXCEPT !.m_poGMLHandler[1].m_pszCurField = NULL],
                          pszName, pszFID, at)
    ELSE PushPath([r EXCEPT !.m_poGMLHandler[1].m_pszCurField =
                       IF IsAttributeElement(r, pszName) THEN << <<>> >> ELSE NULL],
                  pszName)

\* The second half of end_element: the end of a feature element pops the
\* state, which hands the feature over; another element leaves the path.
closeElement(r, at) ==
    IF Top(r).m_poFeature # NULL /\ Len(Top(r).m_papszPathComponents) = 0
    THEN PopState([r EXCEPT !.m_poState[Len(r.m_poState)].m_poFeature[1].closed = at])
    ELSE PopPath(r)

\* end_element(E); at is the position of the tag in the document.
endElement(r, at) ==
    IF Handler(r).m_nIgnoreDepth > 0
    THEN [r EXCEPT !.m_poGMLHandler[1].m_nIgnoreDepth = @ - 1]
    ELSE IF Handler(r).m_pszCurField # NULL
    THEN closeElement(
             SetFeatureProperty([r EXCEPT !.m_poGMLHandler[1].m_pszCurField = NULL],
                                JoinPath(Top(r).m_papszPathComponents),
                                Handler(r).m_pszCurField[1]),
             at)
    ELSE closeElement(r, at)

\* characters(data, len)
dataHandler(r, data) ==
    IF Handler(r).m_nIgnoreDepth = 0 /\ Handler(r).m_pszCurField # NULL
    THEN [r EXCEPT !.m_poGMLHandler[1].m_pszCurField = << @[1] \o data >>]
    ELSE r

\* A geometry element and its subtree: recorded in the geometry list of
\* the current feature.
geometryElement(r, g) ==
    IF Handler(r).m_nIgnoreDepth > 0 \/ Top(r).m_poFeature = NULL THEN r
    ELSE SetTop(r, [Top(r) EXCEPT !.m_poFeature[1].m_papsGeometry = Append(@, g)])

\* One token's events.
HandleToken(r, tok, at) ==
    CASE tok.t = "start" -> startElement(r, tok.name, tok.fid, at)
      [] tok.t = "end" -> endElement(r, at)
      [] tok.t = "chars" -> dataHandler(r, tok.v)
      [] tok.t = "geom" -> geometryElement(r, tok.v[1])


(***************************************************************************)
(* SetupParser, CleanupParser.                                             *)
(***************************************************************************)
RECURSIVE PopAll(_)
\* while( m_poState ) PopState();
PopAll(r) == IF r.m_poState = <<>> THEN r ELSE PopAll(PopState(r))

\* if( !bUseExpatReader && m_poSAXReader == NULL ) return;
\* if( bUseExpatReader && oParser == NULL ) return;
NoParser(r) ==
    \/ ~r.bUseExpatReader /\ r.m_poSAXReader = NULL
    \/ r.bUseExpatReader /\ r.oParser = NULL

\* CleanupParser without the loop that pops the states.
CleanupParserNoPop(r) ==
    IF NoParser(r) THEN r
    ELSE [r EXCEPT !.m_poSAXReader = NULL, !.m_GMLInputSource = FALSE,
                   !.m_poCompleteFeature = NULL,
                   !.oParser = NULL, !.ppoFeatureTab = <<>>,
                   !.nFeatureTabIndex = 0, !.nFeatureTabLength = 0,
                   !.m_poGMLHandler = NULL,
                   !.m_bReadStarted = FALSE]

\* CleanupParser that leaves the queued and the latched features in place.
CleanupParserKeep(r) ==
    IF NoParser(r) THEN r
    ELSE [PopAll(r) EXCEPT !.m_poSAXReader = NULL, !.m_GMLInputSource = FALSE,
                           !.oParser = NULL, !.m_poGMLHandler = NULL,
                           !.m_bReadStarted = FALSE]

\* CleanupParser()
CleanupParser(r) ==
    IF NoParser(r) THEN r
    ELSE [PopAll(r) EXCEPT !.m_poSAXReader = NULL, !.m_GMLInputSource = FALSE,
                           !.m_poCompleteFeature = NULL,
                           !.oParser = NULL, !.ppoFeatureTab = <<>>,
                           !.nFeatureTabIndex = 0, !.nFeatureTabLength = 0,
                           !.m_poGMLHandler = NULL,
                           !.m_bReadStarted = FALSE]

\* SetupParserExpat() without the cleanup of the old parser.
SetupParserExpatNoCleanup(r) ==
    [r EXCEPT !.oParser = << [depth |-> 0] >>,
              !.m_poGMLHandler = << NewHandler >>]

\* SetupParserExpat(), which cannot fail.
SetupParserExpat(r) ==
    [(IF r.oParser # NULL THEN CleanupParser(r) ELSE r)
        EXCEPT !.oParser = << [depth |-> 0] >>,
               !.m_poGMLHandler = << NewHandler >>]

\* SetupParserXerces(), Xerces initialising without an exception.  The
\* adapter records how often parseFirst was invoked on it (nFirst) and
\* whether parseNext was invoked on it without a parseFirst that had
\* returned true (unprimed).
SetupParserXerces(r) ==
    [(IF r.m_poSAXReader # NULL THEN CleanupParser(r) ELSE r)
        EXCEPT !.m_poSAXReader = << [pos |-> 0, first |-> FALSE, depth |-> 0,
                                     nFirst |-> 0, unprimed |-> FALSE] >>,
               !.m_poGMLHandler = << NewHandler >>,
               !.m_GMLInputSource = @ \/ r.fpGML # NULL]

\* The first lines of SetupParser: the file is opened if it is not open,
\* and rewound.  VSIFOpenL of a NULL file name does not return (aborted).
OpenAndRewind(r) ==
    [r EXCEPT
       !.fpGML = IF \/ r.fpGML # NULL
                    \/ r.m_pszFilename # NULL /\ FileExists(r.m_pszFilename[1])
                 THEN << [pos |-> 0, eof |-> FALSE] >>
                 ELSE NULL,
       !.aborted = @ \/ (r.fpGML = NULL /\ r.m_pszFilename = NULL)]

\* The end of SetupParser with m_bStopParsing reset for the new parse.
SetupParserEndRestart(r) ==
    [r |-> PushState([r EXCEPT !.m_bReadStarted = FALSE,
                               !.m_bStopParsing = FALSE], NewReadState),
     ret |-> TRUE]

\* The lines of SetupParser after the back end's own setup has succeeded.
SetupParserEnd(r) ==
    [r |-> PushState([r EXCEPT !.m_bReadStarted = FALSE], NewReadState),
     ret |-> TRUE]

\* SetupParser()
SetupParser(r) ==
    IF r.bUseExpatReader
    THEN SetupParserEnd(SetupParserExpat(OpenAndRewind(r)))
    ELSE SetupParserEnd(SetupParserXerces(OpenAndRewind(r)))

\* if( !m_bReadStarted ) { if( parser == NULL ) SetupParser();
\*                         m_bReadStarted = TRUE; }
StartReading(r) ==
    IF r.m_bReadStarted THEN r
    ELSE [(IF NoParser(r) THEN SetupParser(r).r ELSE r)
             EXCEPT !.m_bReadStarted = TRUE]

(***************************************************************************)
(* The Expat driver.                                                       *)
(***************************************************************************)
DepthAfter(depth, tok) ==
    CASE tok.t = "start" -> depth + 1
      [] tok.t = "end" -> depth - 1
      [] OTHER -> depth

RECURSIVE ExpatFeed(_, _, _)
\* The events of the tokens of one buffer, in order, up to malformed text.
ExpatFeed(r, toks, at) ==
    IF toks = <<>> THEN [r |-> r, ok |-> TRUE]
    ELSE IF Head(toks).t = "err" THEN [r |-> r, ok |-> FALSE]
    ELSE ExpatFeed([HandleToken(r, Head(toks), at) EXCEPT
                        !.oParser[1].depth = DepthAfter(@, Head(toks))],
                   Tail(toks), at + 1)

\* The status XML_Parse returns after the buffer's events: an error also
\* at the end of a document that leaves elements open.
ParseStatus(f, nDone) ==
    IF f.ok /\ nDone /\ f.r.oParser[1].depth > 0
    THEN [r |-> f.r, ok |-> FALSE]
    ELSE f

\* XML_Parse(oParser, aBuf, nLen, nDone); ok = FALSE is XML_STATUS_ERROR.
XML_Parse(r, toks, at, nDone) == ParseStatus(ExpatFeed(r, toks, at), nDone)

\* nLen = VSIFReadL(aBuf, 1, sizeof(aBuf), fpGML), in tokens.
ReadLen(r) == Min(r.nBuf, Len(r.file) - r.fpGML[1].pos)

\* nDone = VSIFEofL(fpGML) after the read: a short read sets the flag.
ReadDone(r) == ReadLen(r) < r.nBuf

\* The file after the read.
AfterRead(r) ==
    [r EXCEPT !.fpGML = << [pos |-> r.fpGML[1].pos + ReadLen(r),
                            eof |-> ReadDone(r)] >>]

\* if( XML_Parse(...) == XML_STATUS_ERROR ) m_bStopParsing = TRUE;
StopOnError(p) == [p.r EXCEPT !.m_bStopParsing = @ \/ ~p.ok]

RECURSIVE ExpatLoop(_)

\* } while( !nDone && !m_bStopParsing && nFeatureTabLength == 0 );
ExpatLoopEnd(r, nDone) ==
    IF ~nDone /\ ~r.m_bStopParsing /\ r.nFeatureTabLength = 0
    THEN ExpatLoop(r)
    ELSE r

\* The do ... while loop of NextFeatureExpat: one VSIFReadL of nBuf tokens
\* and one XML_Parse per turn.
ExpatLoop(r) ==
    ExpatLoopEnd(
        StopOnError(XML_Parse(AfterRead(r),
                              SubSeq(r.file, r.fpGML[1].pos + 1,
                                     r.fpGML[1].pos + ReadLen(r)),
                              r.fpGML[1].pos + 1, ReadDone(r))),
        ReadDone(r))

\* TakeQueued without the increment of nFeatureTabIndex.
TakeQueuedNoAdvance(r) ==
    IF r.nFeatureTabIndex < r.nFeatureTabLength
    THEN [r |-> r, ret |-> << r.ppoFeatureTab[r.nFeatureTabIndex + 1] >>]
    ELSE [r |-> r, ret |-> NULL]

\* return ppoFeatureTab[nFeatureTabIndex++], or NULL from an empty queue.
TakeQueued(r) ==
    IF r.nFeatureTabIndex < r.nFeatureTabLength
    THEN [r |-> [r EXCEPT !.nFeatureTabIndex = @ + 1],
          ret |-> << r.ppoFeatureTab[r.nFeatureTabIndex + 1] >>]
    ELSE [r |-> r, ret |-> NULL]

\* NextFeatureExpat after the if( !m_bReadStarted ) block.
NextFeatureExpatStarted(r) ==
    IF r.fpGML = NULL \/ r.m_bStopParsing THEN [r |-> r, ret |-> NULL]
    ELSE IF r.nFeatureTabIndex < r.nFeatureTabLength THEN TakeQueued(r)
    ELSE IF r.fpGML[1].eof THEN [r |-> r, ret |-> NULL]
    ELSE TakeQueued(ExpatLoop([r EXCEPT !.ppoFeatureTab = <<>>,
                                        !.nFeatureTabLength = 0,
                                        !.nFeatureTabIndex = 0]))

\* NextFeatureExpat()
NextFeatureExpat(r) == NextFeatureExpatStarted(StartReading(r))

(***************************************************************************)
(* The Xerces driver.                                                      *)
(***************************************************************************)
\* m_poSAXReader->parseFirst: scans the prolog; it fails on a document that
\* is empty or starts with malformed text.
parseFirst(r) ==
    [r |-> [r EXCEPT !.m_poSAXReader[1].first =
                         Len(r.file) > 0 /\ r.file[1].t # "err",
                     !.m_poSAXReader[1].nFirst = @ + 1],
     ret |-> Len(r.file) > 0 /\ r.file[1].t # "err"]

\* m_poSAXReader->parseNext: scans one token and fires its events.  ret is
\* "true", "false" (end of the document) or "throw" (malformed text, the end
\* of a document that leaves elements open, or a scan that parseFirst did
\* not start).
parseNext(r) ==
    LET sax == r.m_poSAXReader[1] IN
    IF ~sax.first
    THEN [r |-> [r EXCEPT !.m_poSAXReader[1].unprimed = TRUE], ret |-> "throw"]
    ELSE IF sax.pos = Len(r.file)
    THEN [r |-> r, ret |-> IF sax.depth > 0 THEN "throw" ELSE "false"]
    ELSE IF r.file[sax.pos + 1].t = "err" THEN [r |-> r, ret |-> "throw"]
    ELSE [r |-> [HandleToken(r, r.file[sax.pos + 1], sax.pos + 1) EXCEPT
                     !.m_poSAXReader[1].pos = @ + 1,
                     !.m_poSAXReader[1].depth = DepthAfter(@, r.file[sax.pos + 1])],
          ret |-> "true"]

RECURSIVE XercesLoop(_)

\* One turn of the loop after parseNext has returned or thrown.
XercesLoopEnd(p) ==
    IF p.ret = "true" THEN XercesLoop(p.r)
    ELSE [r |-> p.r, thrown |-> p.ret = "throw"]

\* The loop of NextFeatureXerces that goes on although a feature is latched.
XercesLoopNoYield(r) ==
    IF ~r.m_bStopParsing THEN XercesLoopEnd(parseNext(r))
    ELSE [r |-> r, thrown |-> FALSE]

\* while( m_poCompleteFeature == NULL && !m_bStopParsing && parseNext() ) {}
XercesLoop(r) ==
    IF r.m_poCompleteFeature = NULL /\ ~r.m_bStopParsing
    THEN XercesLoopEnd(parseNext(r))
    ELSE [r |-> r, thrown |-> FALSE]

\* The end of NextFeatureXerces: an exception sets m_bStopParsing and NULL
\* is returned; otherwise the latched feature is returned and the slot
\* emptied.
XercesReturn(l) ==
    IF l.thrown
    THEN [r |-> [l.r EXCEPT !.m_bStopParsing = TRUE], ret |-> NULL]
    ELSE [r |-> [l.r EXCEPT !.m_poCompleteFeature = NULL],
          ret |-> l.r.m_poCompleteFeature]

\* NextFeatureXerces after parseFirst.
XercesAfterFirst(pf) ==
    IF ~pf.ret THEN [r |-> pf.r, ret |-> NULL]
    ELSE XercesReturn(XercesLoop(pf.r))

\* NextFeatureXerces after SetupParser: started says m_bReadStarted was set
\* when NextFeature was called.
NextFeatureXercesStarted(r, started) ==
    IF started THEN XercesReturn(XercesLoop(r))
    ELSE IF ~r.m_GMLInputSource THEN [r |-> r, ret |-> NULL]
    ELSE XercesAfterFirst(parseFirst(r))

\* NextFeatureXerces()
NextFeatureXerces(r) == NextFeatureXercesStarted(StartReading(r), r.m_bReadStarted)

\* NextFeature()
NextFeature(r) ==
    IF r.bUseExpatReader THEN NextFeatureExpat(r) ELSE NextFeatureXerces(r)


(***************************************************************************)
(* PrescanForSchema, ResetReading, LoadClasses and the small setters.      *)
(***************************************************************************)
\* The first step of the body of PrescanForSchema's loop: the class's
\* feature count goes from -1 to 1, or up by one.
CountFeature(r, poFeature) ==
    [r EXCEPT !.m_papoClass[poFeature.m_poClass].m_nFeatureCount =
                  IF @ = -1 THEN 1 ELSE @ + 1]

\* "EPSG:<code>" becomes "urn:ogc:def:crs:EPSG::<code>" when EPSG codes are
\* to be read as URNs:  strncmp(pszName, "EPSG:", 5) == 0 && bConsider...
EPSGAsURN(pszName, bConsiderEPSGAsURN) ==
    IF Len(pszName) >= 5 /\ SubSeq(pszName, 1, 5) = s_EPSG /\ bConsiderEPSGAsURN
    THEN s_urnEPSG \o SubSeq(pszName, 6, Len(pszName))
    ELSE pszName

\* GML_IsSRSLatLongOrder(pszSRSName): of the names of the model, the URN of
\* EPSG 4326 denotes a system in latitude/longitude order.
GML_IsSRSLatLongOrder(pszSRSName) ==
    pszSRSName # NULL /\ pszSRSName[1] = s_urn4326

\* The WKT that exportToWkt gives for a lat/long SRS name once the AXIS
\* nodes of its GEOGCS are stripped.
s_WKT4326 == << "G", "E", "O", "G", "C", "S", "[", "4", "3", "2", "6", "]" >>

\* (xmin, xmax, ymin, ymax) with the axes exchanged.
SwapAxes(env) == << env[3], env[4], env[1], env[2] >>

\* GML_BuildOGRGeometryFromList(list, TRUE, bInvertAxisOrderIfLatLong, ...):
\* NULL for an empty list, else the geometry of the element, its axes
\* exchanged when asked and the element names a lat/long SRS.
GML_BuildOGRGeometryFromList(papsGeometry, bInvertAxisOrderIfLatLong) ==
    IF papsGeometry = <<>> THEN NULL
    ELSE << [ type |-> papsGeometry[1].type,
              env |-> IF /\ bInvertAxisOrderIfLatLong
                         /\ GML_IsSRSLatLongOrder(papsGeometry[1].srsName)
                         /\ papsGeometry[1].env # NULL
                      THEN << SwapAxes(papsGeometry[1].env[1]) >>
                      ELSE papsGeometry[1].env ] >>

\* GML_ExtractSrsNameFromGeometry(list, bConsiderEPSGAsURN)
GML_ExtractSrsNameFromGeometry(papsGeometry, bConsiderEPSGAsURN) ==
    IF papsGeometry = <<>> \/ papsGeometry[1].srsName = NULL THEN NULL
    ELSE << EPSGAsURN(papsGeometry[1].srsName[1], bConsiderEPSGAsURN) >>

\* GMLFeatureClass::MergeSRSName(pszSRSName): the first name is remembered,
\* a second one that differs marks the class's SRS as ambiguous.
MergeSRSName(poClass, pszSRSName) ==
    IF ~poClass.m_bSRSNameConsistent \/ pszSRSName = NULL THEN poClass
    ELSE IF poClass.m_pszSRSName = NULL
    THEN [poClass EXCEPT !.m_pszSRSName = pszSRSName]
    ELSE [poClass EXCEPT !.m_bSRSNameConsistent = (@ /\ poClass.m_pszSRSName = pszSRSName)]

\* OGRMergeGeometryTypes(eMain, eExtra): unknown and none give way to the
\* other type, equal types pass through, and two different types of the
\* model (which have no common multi- type) give unknown.
OGRMergeGeometryTypes(eMain, eExtra) ==
    IF eMain \in { "Unknown", "None" } THEN eExtra
    ELSE IF eMain = eExtra THEN eMain
    ELSE "Unknown"

\* The extents of a class merged with the envelope of a geometry.
MergeExtents(ext, env) ==
    IF ext = NULL THEN << env >>
    ELSE << << Min(ext[1][1], env[1]), Max(ext[1][2], env[2]),
               Min(ext[1][3], env[3]), Max(ext[1][4], env[4]) >> >>

\* The class of a feature once the feature's geometry is merged into it:
\* SRS name, geometry type (unknown read as none for the class's first
\* feature), and extents unless the geometry is empty.
MergeGeometry(poClass, pszSRSName, poGeometry) ==
    [MergeSRSName(poClass, pszSRSName) EXCEPT
        !.m_nGeometryType =
            OGRMergeGeometryTypes(
                IF poClass.m_nFeatureCount = 1 /\ @ = "Unknown" THEN "None" ELSE @,
                poGeometry.type),
        !.m_Extents = IF poGeometry.env = NULL THEN @
                      ELSE MergeExtents(@, poGeometry.env[1])]

\* if( poGeometry != NULL ) { ... }, pszSRSName being what
\* GML_ExtractSrsNameFromGeometry returned.
FoldGeometry(r, iClass, pszSRSName, poGeometry) ==
    IF poGeometry = NULL THEN r
    ELSE [r EXCEPT
             !.m_bCanUseGlobalSRSName = IF pszSRSName # NULL THEN FALSE ELSE @,
             !.m_papoClass[iClass] = MergeGeometry(@, pszSRSName, poGeometry[1])]

\* The body of PrescanForSchema's loop for one feature.
PrescanFeature(r, poFeature, bGetExtents) ==
    IF ~bGetExtents THEN CountFeature(r, poFeature)
    ELSE FoldGeometry(
             CountFeature(r, poFeature), poFeature.m_poClass,
             GML_ExtractSrsNameFromGeometry(poFeature.m_papsGeometry,
                                            r.m_bConsiderEPSGAsURN),
             GML_BuildOGRGeometryFromList(poFeature.m_papsGeometry,
                                          r.m_bInvertAxisOrderIfLatLong))

RECURSIVE PrescanLoop(_, _)

\* One turn of the loop, n being what NextFeature returned.
PrescanStep(n, bGetExtents) ==
    IF n.ret = NULL THEN n.r
    ELSE PrescanLoop(PrescanFeature(n.r, n.ret[1], bGetExtents), bGetExtents)

\* while( (poFeature = NextFeature()) != NULL ) { ... }
PrescanLoop(r, bGetExtents) == PrescanStep(NextFeature(r), bGetExtents)

\* The SRS name the loop over the classes works with: the class's own, or
\* the global one when no geometry carried a name.
PrescanSRSName(r, poClass) ==
    IF r.m_bCanUseGlobalSRSName THEN r.m_pszGlobalSRSName
    ELSE poClass.m_pszSRSName

\* The body of the loop over the classes with the extents exchanged whether
\* or not the global name was used.
PrescanClassSwapAll(r, poClass) ==
    IF r.m_bInvertAxisOrderIfLatLong
       /\ GML_IsSRSLatLongOrder(PrescanSRSName(r, poClass))
    THEN [poClass EXCEPT
             !.m_pszSRSName = << s_WKT4326 >>,
             !.m_Extents = IF @ # NULL THEN << SwapAxes(@[1]) >> ELSE @]
    ELSE poClass

\* The body of the loop over the classes: for a lat/long SRS whose axis
\* order is to be inverted, the class gets the WKT without AXIS nodes as
\* its SRS name, and its extents are exchanged when the global name was
\* used.
PrescanClass(r, poClass) ==
    IF r.m_bInvertAxisOrderIfLatLong
       /\ GML_IsSRSLatLongOrder(PrescanSRSName(r, poClass))
    THEN [poClass EXCEPT
             !.m_pszSRSName = << s_WKT4326 >>,
             !.m_Extents = IF r.m_bCanUseGlobalSRSName /\ @ # NULL
                           THEN << SwapAxes(@[1]) >> ELSE @]
    ELSE poClass

\* for( int i = 0; i < m_nClassCount; i++ ) { ... }
PrescanClasses(r) ==
    [r EXCEPT !.m_papoClass =
         [i \in 1..Len(r.m_papoClass) |-> PrescanClass(r, r.m_papoClass[i])]]

\* The end of PrescanForSchema without the CleanupParser call.
PrescanEndNoCleanup(r) == [r |-> r, ret |-> GetClassCount(r) > 0]

\* The end of PrescanForSchema: the loop over the classes, CleanupParser(),
\* return GetClassCount() > 0.
PrescanEnd(r) ==
    [r |-> CleanupParser(PrescanClasses(r)), ret |-> GetClassCount(r) > 0]

\* PrescanForSchema after SetupParser, s being what SetupParser returned.
PrescanScan(s, bGetExtents) ==
    IF ~s.ret THEN [r |-> s.r, ret |-> FALSE]
    ELSE PrescanEnd(PrescanLoop([s.r EXCEPT !.m_bCanUseGlobalSRSName = TRUE],
                                bGetExtents))

\* PrescanForSchema(bGetExtents)
PrescanForSchema(r, bGetExtents) ==
    IF r.m_pszFilename = NULL THEN [r |-> r, ret |-> FALSE]
    ELSE PrescanScan(
             SetupParser(ClearClasses([r EXCEPT !.m_bClassListLocked = FALSE])),
             bGetExtents)

\* SetGlobalSRSName without the test that no global SRS name is set.
SetGlobalSRSNameAgain(r, pszGlobalSRSName) ==
    IF pszGlobalSRSName = NULL THEN r
    ELSE [r EXCEPT !.m_pszGlobalSRSName =
              << EPSGAsURN(pszGlobalSRSName[1], r.m_bConsiderEPSGAsURN) >>]

\* SetGlobalSRSName(pszGlobalSRSName)
SetGlobalSRSName(r, pszGlobalSRSName) ==
    IF r.m_pszGlobalSRSName = NULL /\ pszGlobalSRSName # NULL
    THEN [r EXCEPT !.m_pszGlobalSRSName =
              << EPSGAsURN(pszGlobalSRSName[1], r.m_bConsiderEPSGAsURN) >>]
    ELSE r

\* SetFilteredClassName(pszClassName)
SetFilteredClassName(r, pszClassName) ==
    [r EXCEPT !.m_pszFilteredClassName = pszClassName]

\* ResetReading() without the call that clears the class filter.
ResetReadingKeepFilter(r) == CleanupParser(r)

\* ResetReading()
ResetReading(r) == SetFilteredClassName(CleanupParser(r), NULL)

\* ~GMLReader(): ClearClasses(), then CleanupParser(); the file is closed
\* and the strings are freed.
Destructor(r) ==
    [CleanupParser(ClearClasses(r)) EXCEPT
        !.m_pszFilename = NULL, !.fpGML = NULL, !.m_pszGlobalSRSName = NULL,
        !.m_pszFilteredClassName = NULL, !.destroyed = TRUE]

\* SetSourceFile(pszFilename)
SetSourceFile(r, pszFilename) == [r EXCEPT !.m_pszFilename = << pszFilename >>]

\* A schema sidecar file, as LoadClasses sees it: kind says how far the
\* file gets ("null": pszFile is NULL; "noopen": it cannot be opened;
\* "nolist": it lacks the text <GMLFeatureClassList>; "badxml": it does not
\* parse; "wrongroot": its root is another element; "ok"), children are the
\* GMLFeatureClass elements under the root: the class's name and element
\* name, and whether InitializeFromXML accepts it.
Child(name, elem, ok) ==
    [name |-> name, elem |-> elem, ok |-> ok, props |-> <<>>]

ChildKinds == { Child(s_A, s_A, TRUE), Child(s_A, s_B, TRUE),
                Child(s_B, s_B, FALSE) }

\* Number of GMLFeatureClass elements in a sidecar file.
MaxSidecar == 2

\* Number of classes the registry is let grow to by LoadClasses and AddClass.
MaxClasses == 2

Sidecars ==
    { [kind |-> k, children |-> <<>>] :
          k \in {"null", "noopen", "nolist", "badxml", "wrongroot"} }
    \cup { [kind |-> "ok", children |-> c] :
               c \in UNION { [1..n -> ChildKinds] : n \in 0..MaxSidecar } }

\* GMLFeatureClass::InitializeFromXML followed by SetSchemaLocked(TRUE)
LoadedClass(child) ==
    [NewFeatureClass(child.name) EXCEPT !.m_pszElementName = child.elem,
                                        !.m_papoProperty = child.props,
                                        !.m_bSchemaLocked = TRUE]

RECURSIVE LoadChildren(_, _)
\* The loop of LoadClasses over the children of the root.
LoadChildren(r, children) ==
    IF children = <<>> THEN [r |-> r, ret |-> TRUE]
    ELSE IF ~Head(children).ok THEN [r |-> r, ret |-> FALSE]
    ELSE LoadChildren(AddClass(r, LoadedClass(Head(children))), Tail(children))

\* The end of LoadClasses without SetClassListLocked( TRUE ).
LoadClassesEndNoLock(l) == l

\* The end of LoadClasses: SetClassListLocked( TRUE ) when every class
\* was initialised.
LoadClassesEnd(l) ==
    IF ~l.ret THEN l
    ELSE [r |-> [l.r EXCEPT !.m_bClassListLocked = TRUE], ret |-> TRUE]

\* LoadClasses(pszFile)
LoadClasses(r, sidecar) ==
    IF sidecar.kind # "ok" THEN [r |-> r, ret |-> FALSE]
    ELSE LoadClassesEnd(LoadChildren(r, sidecar.children))

(***************************************************************************)
(* The state.                                                              *)
(***************************************************************************)
VARIABLES
    reader,   \* the GMLReader object, with the file it reads (file, nBuf)
    cur,      \* the features NextFeature returned in the current scan
    ended,    \* NextFeature returned NULL in the current scan
    prev,     \* the features of the scan before the last ResetReading, if
              \* that scan had run to its end; NULL otherwise
    counted,  \* the current scan follows a PrescanForSchema of the same file
    last      \* the last operation and what it returned

vars == << reader, cur, ended, prev, counted, last >>

\* GMLReader::GMLReader(bUseExpatParserPreferably,
\* bInvertAxisOrderIfLatLong, bConsiderEPSGAsURN), reading a file whose
\* content is doc in buffers of nBuf tokens.
NewReaderWith(bUseExpat, bInvertAxisOrder, bEPSGAsURN, doc, nBuf) ==
    [ bUseExpatReader |-> bUseExpat,
      m_bInvertAxisOrderIfLatLong |-> bInvertAxisOrder,
      m_bConsiderEPSGAsURN |-> bEPSGAsURN,
      m_papoClass |-> <<>>,
      m_bClassListLocked |-> FALSE,
      m_poGMLHandler |-> NULL,
      m_poSAXReader |-> NULL,
      m_poCompleteFeature |-> NULL,
      m_GMLInputSource |-> FALSE,
      oParser |-> NULL,
      ppoFeatureTab |-> <<>>,
      nFeatureTabIndex |-> 0,
      nFeatureTabLength |-> 0,
      fpGML |-> NULL,
      m_bReadStarted |-> FALSE,
      m_poState |-> <<>>,
      m_pszFilename |-> NULL,
      m_bStopParsing |-> FALSE,
      m_pszGlobalSRSName |-> NULL,
      m_bCanUseGlobalSRSName |-> FALSE,
      m_pszFilteredClassName |-> NULL,
      file |-> doc,
      nBuf |-> nBuf,
      bOverflow |-> FALSE,
      assertFailed |-> FALSE,
      aborted |-> FALSE,
      destroyed |-> FALSE ]

\* The reader with the axis order inverted for lat/long systems and EPSG
\* codes not read as URNs.
NewReader(bUseExpatParserPreferably, doc, nBuf) ==
    NewReaderWith(bUseExpatParserPreferably, TRUE, FALSE, doc, nBuf)

\* The buffer sizes of the model: one token per read, or MaxBuf tokens.
BufSizes == {1, MaxBuf}

\* The readers the model starts from: each back end, on each document out
\* of docs, Expat with each buffer size out of bufs.
InitWith(docs, bufs) ==
    /\ \E doc \in docs, bExpat \in BOOLEAN, nBuf \in bufs :
           /\ (~bExpat => nBuf = 1)
           /\ reader = NewReader(bExpat, doc, nBuf)
    /\ cur = <<>>
    /\ ended = FALSE
    /\ prev = NULL
    /\ counted = FALSE
    /\ last = [op |-> "new", ret |-> NULL]

Init == InitWith(Docs, BufSizes)

\* The step of an operation that leaves the reader r.  An operation that
\* ran into VSIFOpenL(NULL) stops the program there.
Finish(r, c, e, p, k, l) ==
    IF r.aborted
    THEN /\ reader' = [reader EXCEPT !.aborted = TRUE]
         /\ UNCHANGED << cur, ended, prev, counted, last >>
    ELSE /\ reader' = r
         /\ cur' = c
         /\ ended' = e
         /\ prev' = p
         /\ counted' = k
         /\ last' = l

Running == ~reader.aborted /\ ~reader.destroyed

DoSetSourceFile ==
    /\ Running
    /\ \E name \in FileNames :
           Finish(SetSourceFile(reader, name), cur, ended, NULL, FALSE,
                  [op |-> "SetSourceFile", ret |-> NULL])

\* What a NextFeature call that returned n leaves.
FinishNextFeature(n) ==
    Finish(n.r, cur \o n.ret, ended \/ n.ret = NULL, prev, counted,
           [op |-> "NextFeature", ret |-> n.ret])

DoNextFeature ==
    /\ Running
    /\ FinishNextFeature(NextFeature(reader))

DoResetReading ==
    /\ Running
    /\ Finish(ResetReading(reader), <<>>, FALSE,
              IF ended THEN << cur >> ELSE NULL, counted,
              [op |-> "ResetReading", ret |-> NULL])

\* What a PrescanForSchema call that returned p leaves.
FinishPrescan(p) ==
    Finish(p.r, <<>>, FALSE, NULL, reader.m_pszFilename # NULL,
           [op |-> "PrescanForSchema", ret |-> << p.ret >>])

DoPrescanForSchema ==
    /\ Running
    /\ \E bGetExtents \in BOOLEAN :
           FinishPrescan(PrescanForSchema(reader, bGetExtents))

\* The streaming reader: a file is named, scanned, rewound and prescanned.
Next ==
    \/ DoSetSourceFile
    \/ DoNextFeature
    \/ DoResetReading
    \/ DoPrescanForSchema

Spec == Init /\ [][Next]_vars

(***************************************************************************)
(* SpecReg: the reader with the operations on the class registry that a    *)
(* data source calls around a scan (LoadClasses, AddClass, ClearClasses).  *)
(***************************************************************************)
\* The documents of SpecReg: no feature or one, complete or broken off.
RegItemSeqs == { <<>>, <<"fA">> }
RegDocs == { DocTokens(items, e) : items \in RegItemSeqs, e \in {"ok", "open"} }

InitReg == InitWith(RegDocs, {1})

\* What a LoadClasses call that returned l leaves.
FinishLoadClasses(l) ==
    Finish(l.r, cur, ended, NULL, FALSE,
           [op |-> "LoadClasses", ret |-> << l.ret >>])

DoLoadClasses ==
    /\ Running
    /\ \E sidecar \in Sidecars :
           /\ GetClassCount(reader) + Len(sidecar.children) <= MaxClasses
           /\ FinishLoadClasses(LoadClasses(reader, sidecar))

\* AddClass called as its assertion asks: with a name no class has.
DoAddClass ==
    /\ Running
    /\ GetClassCount(reader) < MaxClasses
    /\ \E name \in {s_A, s_B} :
           /\ GetClassByName(reader, name) = 0
           /\ Finish(AddClass(reader, NewFeatureClass(name)), cur, ended, NULL,
                     FALSE, [op |-> "AddClass", ret |-> NULL])

DoClearClasses ==
    /\ Running
    /\ Finish(ClearClasses(reader), cur, ended, NULL, FALSE,
              [op |-> "ClearClasses", ret |-> NULL])

NextReg ==
    \/ DoSetSourceFile
    \/ DoNextFeature
    \/ DoResetReading
    \/ DoPrescanForSchema
    \/ DoLoadClasses
    \/ DoAddClass
    \/ DoClearClasses

SpecReg == InitReg /\ [][NextReg]_vars

(***************************************************************************)
(* SpecProp: the handler's calls during a parse, made one by one:          *)
(* PushFeature at a feature element, SetFeatureProperty at the end of an   *)
(* attribute element.                                                      *)
(***************************************************************************)
\* The element paths SetFeatureProperty is called with.
ElementPaths ==
    { <<"x">>, <<"X">>, <<"x","_">>, <<"a","|","x">>, <<"b","|","x">> }

PropDocs == { DocTokens(<<>>, "ok") }

InitProp == InitWith(PropDocs, {1})

\* What a SetupParser call that returned s leaves.
FinishSetupParser(s) ==
    Finish(s.r, <<>>, FALSE, NULL, counted,
           [op |-> "SetupParser", ret |-> << s.ret >>])

DoSetupParser ==
    /\ Running
    /\ FinishSetupParser(SetupParser(reader))

\* PushFeature as the handler calls it: in a parse, on any state.
DoPushFeature ==
    /\ Running
    /\ reader.m_poState # <<>>
    /\ Len(reader.m_poState) < MaxDepth
    /\ \E pszElement \in {s_A} :
           Finish(PushFeature(reader, pszElement, NULL, 0), cur, ended, prev,
                  counted, [op |-> "PushFeature", ret |-> NULL])

\* SetFeatureProperty as the handler calls it: the top state has a feature.
DoSetFeatureProperty ==
    /\ Running
    /\ reader.m_poState # <<>>
    /\ Top(reader).m_poFeature # NULL
    /\ \E pszElement \in ElementPaths :
           /\ \/ Len(TopClass(reader).m_papoProperty) < MaxProps
              \/ FindProperty(TopClass(reader), pszElement)
                     <= Len(TopClass(reader).m_papoProperty)
           /\ Finish(SetFeatureProperty(reader, pszElement, <<"1">>), cur, ended,
                     prev, counted, [op |-> "SetFeatureProperty", ret |-> NULL])

NextProp ==
    \/ DoSetSourceFile
    \/ DoSetupParser
    \/ DoPushFeature
    \/ DoSetFeatureProperty

SpecProp == InitProp /\ [][NextProp]_vars

(***************************************************************************)
(* SpecLock: the calls of SpecProp on classes loaded from a schema sidecar *)
(* file (their schema is locked) and on classes found by PushFeature, with *)
(* values of every syntax.                                                 *)
(***************************************************************************)
\* The element paths and the values SetFeatureProperty is called with.
LockPaths == { <<"x">>, <<"y">> }
PropValues == { <<"1">>, <<"1", ".", "5">>, <<"a">>, <<" ">> }

\* A GMLFeatureClass element of a sidecar file: class A, with one property
\* x of type Integer.
LockChild ==
    [Child(s_A, s_A, TRUE) EXCEPT
        !.props = << [NewPropertyDefn(<<"x">>, <<"x">>) EXCEPT
                         !.m_eType = "Integer"] >>]

LockSidecars == { [kind |-> "ok", children |-> << LockChild >>] }

\* The sidecar file is loaded into an empty registry.
DoLoadSchema ==
    /\ Running
    /\ GetClassCount(reader) = 0
    /\ \E sidecar \in LockSidecars :
           Finish(LoadClasses(reader, sidecar).r, cur, ended, prev, counted,
                  [op |-> "LoadClasses",
                   ret |-> << LoadClasses(reader, sidecar).ret >>])

\* SetFeatureProperty as the handler calls it; last.arg is the element path
\* of the call.
DoSetFeatureValue ==
    /\ Running
    /\ reader.m_poState # <<>>
    /\ Top(reader).m_poFeature # NULL
    /\ \E pszElement \in LockPaths, pszValue \in PropValues :
           Finish(SetFeatureProperty(reader, pszElement, pszValue), cur, ended,
                  prev, counted,
                  [op |-> "SetFeatureProperty", ret |-> NULL,
                   arg |-> << pszElement >>])

NextLock ==
    \/ DoSetSourceFile
    \/ DoLoadSchema
    \/ DoSetupParser
    \/ DoPushFeature
    \/ DoSetFeatureValue

SpecLock == InitProp /\ [][NextLock]_vars

(***************************************************************************)
(* SpecLoaded: streaming scans of documents whose features have a property *)
(* by a reader whose classes are loaded from a schema sidecar file.        *)
(***************************************************************************)
LoadedItemSeqs == { <<"fBa">>, <<"fA", "fBa">>, <<"fB", "fBa">> }
LoadedDocs == { DocTokens(items, "ok") : items \in LoadedItemSeqs }

\* GMLFeatureClass elements of the sidecar files: class B with the property
\* n of type Integer, a class named A for the element B with no property,
\* and an element InitializeFromXML refuses.
ChildBn ==
    [Child(s_B, s_B, TRUE) EXCEPT
        !.props = << [NewPropertyDefn(s_n, s_n) EXCEPT !.m_eType = "Integer"] >>]

LoadedSidecars ==
    { [kind |-> "ok", children |-> c] :
          c \in { <<>>, << ChildBn >>, << Child(s_A, s_B, TRUE) >>,
                  << ChildBn, Child(s_B, s_B, FALSE) >> } }

InitLoaded == InitWith(LoadedDocs, BufSizes)

DoLoadSidecar ==
    /\ Running
    /\ \E sidecar \in LoadedSidecars :
           /\ GetClassCount(reader) + Len(sidecar.children) <= MaxClasses
           /\ FinishLoadClasses(LoadClasses(reader, sidecar))

NextLoaded ==
    \/ DoSetSourceFile
    \/ DoLoadSidecar
    \/ DoNextFeature
    \/ DoResetReading

SpecLoaded == InitLoaded /\ [][NextLoaded]_vars

(***************************************************************************)
(* SpecGeo: prescans, with and without extents, of documents whose         *)
(* features have geometries, by readers built with each setting of the     *)
(* two SRS flags, a global SRS name being set at any time.                 *)
(***************************************************************************)
GeoItemSeqs ==
    { <<"fA">>, <<"gP">>, <<"gS">>, <<"fA", "fA">>, <<"fA", "gP">>,
      <<"gP", "fA">>, <<"gP", "gL">>, <<"gP", "gS">>, <<"gS", "gS">> }
GeoDocs == { DocTokens(items, "ok") : items \in GeoItemSeqs }

\* The names SetGlobalSRSName is called with.
SRSNames == { NULL, << s_EPSG4326 >>, << s_epsg4326 >>, << s_urn4326 >> }

InitGeo ==
    /\ \E doc \in GeoDocs, bExpat \in BOOLEAN, bInvert \in BOOLEAN,
          bURN \in BOOLEAN :
           reader = NewReaderWith(bExpat, bInvert, bURN, doc, 1)
    /\ cur = <<>>
    /\ ended = FALSE
    /\ prev = NULL
    /\ counted = FALSE
    /\ last = [op |-> "new", ret |-> NULL]

\* last.arg is the argument of the call.
DoSetGlobalSRSName ==
    /\ Running
    /\ \E pszGlobalSRSName \in SRSNames :
           Finish(SetGlobalSRSName(reader, pszGlobalSRSName), cur, ended, prev,
                  counted,
                  [op |-> "SetGlobalSRSName", ret |-> NULL,
                   arg |-> pszGlobalSRSName])

\* What a PrescanForSchema(bGetExtents) call that returned p leaves.
FinishPrescanWith(p, bGetExtents) ==
    Finish(p.r, <<>>, FALSE, NULL, reader.m_pszFilename # NULL,
           [op |-> "PrescanForSchema", ret |-> << p.ret >>,
            arg |-> << bGetExtents >>])

DoPrescanWith ==
    /\ Running
    /\ \E bGetExtents \in BOOLEAN :
           FinishPrescanWith(PrescanForSchema(reader, bGetExtents), bGetExtents)

NextGeo ==
    \/ DoSetSourceFile
    \/ DoSetGlobalSRSName
    \/ DoPrescanWith

SpecGeo == InitGeo /\ [][NextGeo]_vars

(***************************************************************************)
(* SpecFilter: streaming scans with a class filter, which is set before a  *)
(* scan starts (after construction or ResetReading).                       *)
(***************************************************************************)
FilterItemSeqs ==
    { <<"fA">>, <<"fA", "fB">>, <<"fB", "fA">>, <<"nest">>, <<"nest", "fB">> }
FilterDocs == { DocTokens(items, "ok") : items \in FilterItemSeqs }

\* The names SetFilteredClassName is called with.
FilterNames == { NULL, << s_A >>, << s_B >> }

InitFilter == InitWith(FilterDocs, BufSizes)

DoSetFilteredClassName ==
    /\ Running
    /\ NoParser(reader)
    /\ \E pszClassName \in FilterNames :
           Finish(SetFilteredClassName(reader, pszClassName), cur, ended, prev,
                  counted,
                  [op |-> "SetFilteredClassName", ret |-> << TRUE >>,
                   arg |-> pszClassName])

NextFilter ==
    \/ DoSetSourceFile
    \/ DoSetFilteredClassName
    \/ DoNextFeature
    \/ DoResetReading

SpecFilter == InitFilter /\ [][NextFilter]_vars

(***************************************************************************)
(* SpecLife: the reader of SpecReg with its classes loaded, cleared and    *)
(* rebuilt by a prescan at any point of a scan, up to its destruction.     *)
(***************************************************************************)
DoDestroy ==
    /\ Running
    /\ Finish(Destructor(reader), <<>>, FALSE, NULL, FALSE,
              [op |-> "~GMLReader", ret |-> NULL])

NextLife ==
    \/ DoSetSourceFile
    \/ DoNextFeature
    \/ DoResetReading
    \/ DoPrescanForSchema
    \/ DoLoadSidecar
    \/ DoClearClasses
    \/ DoDestroy

SpecLife == InitReg /\ [][NextLife]_vars

(***************************************************************************)
(* SpecScan: full scans of a document by the Expat driver, the file read   *)
(* one token at a time or in one buffer.                                   *)
(***************************************************************************)
RECURSIVE ScanLoop(_, _)

\* One turn of a consumer's loop, n being what NextFeature returned.
ScanStep(n, got) ==
    IF n.ret = NULL THEN [r |-> n.r, got |-> got]
    ELSE ScanLoop(n.r, got \o n.ret)

\* while( (poFeature = NextFeature()) != NULL ) collect poFeature;
ScanLoop(r, got) == ScanStep(NextFeature(r), got)

\* A full scan: NextFeature until it returns NULL.
FullScan(r) == ScanLoop(r, <<>>)

\* A new Expat reader on the file pszFilename, doc.gml having the content
\* doc, read nBuf tokens at a time.
ExpatReaderOn(doc, pszFilename, nBuf) ==
    SetSourceFile(NewReader(TRUE, doc, nBuf), pszFilename)

InitScan ==
    /\ \E doc \in Docs :
           \E nBuf \in {1, Len(doc) + 1} : reader = NewReader(TRUE, doc, nBuf)
    /\ cur = <<>>
    /\ ended = FALSE
    /\ prev = NULL
    /\ counted = FALSE
    /\ last = [op |-> "new", ret |-> NULL]

\* What a full scan that returned s leaves.
FinishFullScan(s) ==
    Finish(s.r, s.got, TRUE, prev, counted, [op |-> "FullScan", ret |-> NULL])

DoFullScan ==
    /\ Running
    /\ ~ended
    /\ FinishFullScan(FullScan(reader))

NextScan ==
    \/ DoSetSourceFile
    \/ DoFullScan

SpecScan == InitScan /\ [][NextScan]_vars


(***************************************************************************)
(* Properties.                                                             *)
(***************************************************************************)
\* C1: the features one scan returns come in the order in which their
\* elements close in the document: of two features returned in a scan, the
\* one returned first closed first.
C1_DocumentOrder ==
    \A i, j \in 1..Len(cur) :
        i < j => /\ cur[i].closed # 0
                 /\ cur[i].closed < cur[j].closed

\* A scan by the Expat driver returned a nested feature before the feature
\* around it, which started first and closed last.
C1_Witness ==
    /\ reader.bUseExpatReader
    /\ Len(cur) >= 2
    /\ cur[1].start > cur[2].start
    /\ cur[1].closed < cur[2].closed

\* C2: a consumer of the Expat driver that keeps calling NextFeature gets
\* every queued feature before it is told there is none: when NextFeature
\* has returned NULL, no feature is left in ppoFeatureTab.
C2_QueueDrained ==
    (reader.bUseExpatReader /\ ended)
        => reader.nFeatureTabIndex = reader.nFeatureTabLength

\* C3: with the Xerces driver, no feature whose element closed is popped
\* while m_poCompleteFeature holds a feature, so none is deleted unreturned.
C3_NoOverflow == ~reader.bOverflow

\* The Xerces driver returned a nested feature and then the feature around
\* it: two feature frames were popped at their end tags, two tokens apart.
C3_Witness ==
    /\ ~reader.bUseExpatReader
    /\ Len(cur) >= 2
    /\ cur[1].start > cur[2].start
    /\ cur[2].closed = cur[1].closed + 2

\* Class and FID of each feature of a sequence, in order.
FeatureKeys(feats) ==
    [i \in 1..Len(feats) |-> << feats[i].m_poClass, feats[i].m_pszFID >>]

\* C4: a full scan after ResetReading returns the features of the full scan
\* before it: same classes, same FIDs, same order, same number.
C4_RescanSame ==
    (ended /\ prev # NULL) => FeatureKeys(cur) = FeatureKeys(prev[1])

\* The features of class iClass in a sequence of features.
FeaturesOfClass(feats, iClass) ==
    { i \in 1..Len(feats) : feats[i].m_poClass = iClass }

\* C5: after PrescanForSchema, a full streaming scan of the same file
\* returns, for each class of the registry, as many features as the class's
\* feature count says, and at least one.
C5_CountsMatch ==
    (counted /\ ended) =>
        \A iClass \in 1..GetClassCount(reader) :
            /\ reader.m_papoClass[iClass].m_nFeatureCount
                   = Cardinality(FeaturesOfClass(cur, iClass))
            /\ FeaturesOfClass(cur, iClass) # {}

\* The document the reader reads has no feature: no file could be opened,
\* or no member element opens in the file that is open.
ZeroFeatures ==
    \/ reader.fpGML = NULL
    \/ \A i \in 1..Len(reader.file) :
           ~(reader.file[i].t = "start" /\ reader.file[i].name = s_featureMember)

\* What C6 says of the state PrescanForSchema returns in.
PrescanPost ==
    /\ last.ret[1] = (GetClassCount(reader) > 0)
    /\ NoParser(reader)
    /\ (reader.m_pszFilename # NULL /\ ZeroFeatures)
           => (GetClassCount(reader) = 0 /\ ~last.ret[1])

C7_SplitIndependent ==
    last.op = "FullScan"
        => cur = FullScan(ExpatReaderOn(reader.file, reader.m_pszFilename[1], 1)).got

\* The features the reader holds: those of the frames of the state stack,
\* the latched one, and the queued ones not yet handed out.
HeldFeatures(r) ==
    { r.m_poState[i].m_poFeature[1] :
          i \in { j \in 1..Len(r.m_poState) : r.m_poState[j].m_poFeature # NULL } }
    \cup { r.m_poCompleteFeature[i] : i \in 1..Len(r.m_poCompleteFeature) }
    \cup { r.ppoFeatureTab[i] :
               i \in (r.nFeatureTabIndex + 1)..r.nFeatureTabLength }

\* C8: every feature NextFeature returns has had its end tag processed, and
\* a reader whose parser has been cleaned up holds no feature: none on the
\* state stack, none queued, none latched.
C8_NoPartialFeature ==
    /\ \A i \in 1..Len(cur) : cur[i].closed # 0
    /\ NoParser(reader) => /\ reader.m_poState = <<>>
                           /\ reader.ppoFeatureTab = <<>>
                           /\ reader.m_poCompleteFeature = NULL

\* The tokenizer failed inside a feature: parsing has stopped, NextFeature
\* has returned NULL, and the open feature is still on the state stack.
C8_Witness ==
    /\ reader.m_bStopParsing
    /\ ended
    /\ \E i \in 1..Len(reader.m_poState) : reader.m_poState[i].m_poFeature # NULL

\* C9: the names of the classes of the registry are pairwise distinct.
C9_ClassNamesDistinct ==
    \A i, j \in 1..GetClassCount(reader) :
        i # j => reader.m_papoClass[i].m_pszName # reader.m_papoClass[j].m_pszName

\* C10: the field names of the properties of each class are pairwise
\* distinct.
C10_FieldNamesDistinct ==
    \A iClass \in 1..GetClassCount(reader) :
        \A i, j \in 1..Len(reader.m_papoClass[iClass].m_papoProperty) :
            i # j => reader.m_papoClass[iClass].m_papoProperty[i].m_pszName
                         # reader.m_papoClass[iClass].m_papoProperty[j].m_pszName

\* A class has MaxProps properties, one of them named by its element path
\* with a '_' appended, and one by its element path with two.
C10_Witness ==
    \E iClass \in 1..GetClassCount(reader) :
        /\ Len(reader.m_papoClass[iClass].m_papoProperty) = MaxProps
        /\ \E i, j \in 1..MaxProps :
               /\ reader.m_papoClass[iClass].m_papoProperty[i].m_pszName
                      = reader.m_papoClass[iClass].m_papoProperty[i].m_pszSrcElement
                            \o <<"_">>
               /\ reader.m_papoClass[iClass].m_papoProperty[j].m_pszName
                      = reader.m_papoClass[iClass].m_papoProperty[j].m_pszSrcElement
                            \o <<"_", "_">>

\* C11: the source elements of the properties of each class are pairwise
\* distinct: SetFeatureProperty adds a property only for an element path
\* that no property of the class has, and stores the value at the index of
\* the property that has it otherwise.
C11_SrcElementsDistinct ==
    \A iClass \in 1..GetClassCount(reader) :
        \A i, j \in 1..Len(reader.m_papoClass[iClass].m_papoProperty) :
            i # j => reader.m_papoClass[iClass].m_papoProperty[i].m_pszSrcElement
                         # reader.m_papoClass[iClass].m_papoProperty[j].m_pszSrcElement

\* The feature of the top state holds a value at the second property and
\* none at the first, its class having MaxProps properties: the properties
\* were there before the feature, and the value went to the index of the
\* property that has the element path.
C11_Witness ==
    /\ reader.m_poState # <<>>
    /\ Top(reader).m_poFeature # NULL
    /\ Len(TopClass(reader).m_papoProperty) = MaxProps
    /\ Len(Top(reader).m_poFeature[1].m_papszProperty) = 2
    /\ Top(reader).m_poFeature[1].m_papszProperty[1] = NULL
    /\ Top(reader).m_poFeature[1].m_papszProperty[2] # NULL

\* C12: while the class list is locked and stays locked, no step adds a
\* class to the registry.
C12_LockedNoGrowth ==
    [][(reader.m_bClassListLocked /\ reader'.m_bClassListLocked)
           => Len(reader'.m_papoClass) <= Len(reader.m_papoClass)]_vars

\* C13: SetFeatureProperty on a feature whose class has a locked schema
\* leaves the class as it is (property count, names, source elements and
\* types), and, called with an element path no property of the class has,
\* leaves the feature's values as they are too.
C13_LockedSchemaFrame ==
    [][(/\ last'.op = "SetFeatureProperty"
        /\ reader.m_poState # <<>>
        /\ Top(reader).m_poFeature # NULL
        /\ TopClass(reader).m_bSchemaLocked)
           => /\ reader'.m_papoClass = reader.m_papoClass
              /\ FindProperty(TopClass(reader), last'.arg[1])
                     > Len(TopClass(reader).m_papoProperty)
                  => reader' = reader]_vars

\* SetFeatureProperty was called with a path that no property of the
\* feature's class has, the schema of the class being locked.
C13_Witness ==
    /\ last.op = "SetFeatureProperty"
    /\ reader.m_poState # <<>>
    /\ Top(reader).m_poFeature # NULL
    /\ TopClass(reader).m_bSchemaLocked
    /\ FindProperty(TopClass(reader), last.arg[1])
           > Len(TopClass(reader).m_papoProperty)

\* C14: a LoadClasses call that returns FALSE leaves the registry and the
\* lock of the class list as they were before the call.
C14_FailedLoadChangesNothing ==
    [][(last'.op = "LoadClasses" /\ last'.ret = << FALSE >>)
           => /\ reader'.m_papoClass = reader.m_papoClass
              /\ reader'.m_bClassListLocked = reader.m_bClassListLocked]_vars

\* C15: a LoadClasses call that returns TRUE leaves the class list locked
\* and every class it added schema-locked; and while the class list is
\* locked a NextFeature call adds no class, and leaves the properties
\* (their number, names, source elements and types) of every schema-locked
\* class as they were.
C15_LoadedSchemaFixed ==
    [][/\ (last'.op = "LoadClasses" /\ last'.ret = << TRUE >>)
              => /\ reader'.m_bClassListLocked
                 /\ \A i \in (Len(reader.m_papoClass) + 1)
                                 ..Len(reader'.m_papoClass) :
                        reader'.m_papoClass[i].m_bSchemaLocked
       /\ (last'.op = "NextFeature" /\ reader.m_bClassListLocked)
              => /\ Len(reader'.m_papoClass) = Len(reader.m_papoClass)
                 /\ \A i \in 1..Len(reader.m_papoClass) :
                        reader.m_papoClass[i].m_bSchemaLocked
                            => reader'.m_papoClass[i].m_papoProperty
                                   = reader.m_papoClass[i].m_papoProperty]_vars

\* NextFeature returned a feature of the element B whose class was loaded
\* with no property, the class list being locked: the value of the
\* feature's child n was dropped.
C15_Witness ==
    /\ last.op = "NextFeature"
    /\ last.ret # NULL
    /\ reader.m_bClassListLocked
    /\ last.ret[1].m_poClass \in 1..GetClassCount(reader)
    /\ reader.m_papoClass[last.ret[1].m_poClass].m_bSchemaLocked
    /\ reader.m_papoClass[last.ret[1].m_poClass].m_pszElementName = s_B
    /\ reader.m_papoClass[last.ret[1].m_poClass].m_papoProperty = <<>>
    /\ last.ret[1].m_papszProperty = <<>>

\* C16: a SetGlobalSRSName call sets the global SRS name only when none is
\* set and the argument is not NULL: to "urn:ogc:def:crs:EPSG::<code>" for
\* an argument "EPSG:<code>" when EPSG codes are read as URNs, to the
\* argument as it is otherwise; and no step changes a global SRS name that
\* is set.
C16_GlobalSRSOneShot ==
    [][/\ reader.m_pszGlobalSRSName # NULL
              => reader'.m_pszGlobalSRSName = reader.m_pszGlobalSRSName
       /\ (last'.op = "SetGlobalSRSName" /\ reader.m_pszGlobalSRSName = NULL)
              => reader'.m_pszGlobalSRSName =
                     IF last'.arg = << s_EPSG4326 >> /\ reader.m_bConsiderEPSGAsURN
                     THEN << s_urn4326 >>
                     ELSE last'.arg]_vars

\* SetGlobalSRSName was called with "epsg:4326" on a reader that reads EPSG
\* codes as URNs and that had been given "EPSG:4326" before: the stored
\* name is the URN of the first call.
C16_Witness ==
    /\ last.op = "SetGlobalSRSName"
    /\ last.arg = << s_epsg4326 >>
    /\ reader.m_bConsiderEPSGAsURN
    /\ reader.m_pszGlobalSRSName = << s_urn4326 >>

\* C18: after PrescanForSchema, if the global SRS name can be used and one
\* is set, the SRS name of every class of the registry is the global one.
C18_GlobalSRSOnClasses ==
    (/\ last.op = "PrescanForSchema"
     /\ reader.m_bCanUseGlobalSRSName
     /\ reader.m_pszGlobalSRSName # NULL)
        => \A i \in 1..GetClassCount(reader) :
               reader.m_papoClass[i].m_pszSRSName = reader.m_pszGlobalSRSName

\* C19: after PrescanForSchema with extents of a document none of whose
\* features has a geometry, the geometry type of every class is none.
C19_NoGeometryIsNone ==
    (/\ last.op = "PrescanForSchema"
     /\ last.arg = << TRUE >>
     /\ \A i \in 1..Len(reader.file) : reader.file[i].t # "geom")
        => \A i \in 1..GetClassCount(reader) :
               reader.m_papoClass[i].m_nGeometryType = "None"

C20_ClassesOutliveFeatures ==
    \A poFeature \in HeldFeatures(reader) :
        poFeature.m_poClass \in 1..GetClassCount(reader)

(***************************************************************************)
(* SpecPair: the reader with SetupParser and CleanupParser called by hand  *)
(* around and in the middle of scans, and destroyed at any point.          *)
(***************************************************************************)
PairItemSeqs == { <<"fA">>, <<"nest">>, <<"fA", "nest">>, <<"nest", "fA">> }
PairDocs == { DocTokens(items, e) : items \in PairItemSeqs, e \in {"ok", "open"} }

InitPair == InitWith(PairDocs, BufSizes)

\* last.arg is the number of states on the stack when the call is made.
DoCleanupParser ==
    /\ Running
    /\ Finish(CleanupParser(reader), <<>>, FALSE, NULL, counted,
              [op |-> "CleanupParser", ret |-> NULL,
               arg |-> << Len(reader.m_poState) >>])

NextPair ==
    \/ DoSetSourceFile
    \/ DoNextFeature
    \/ DoSetupParser
    \/ DoCleanupParser
    \/ DoDestroy

SpecPair == InitPair /\ [][NextPair]_vars

\* The reader r has no adapter, no handler, no frame, no queued and no
\* latched feature, and has not started to read.
ParserIdle(r) ==
    /\ r.oParser = NULL
    /\ r.m_poSAXReader = NULL
    /\ r.m_poGMLHandler = NULL
    /\ r.m_poState = <<>>
    /\ r.m_poCompleteFeature = NULL
    /\ r.ppoFeatureTab = <<>>
    /\ r.nFeatureTabIndex = 0
    /\ r.nFeatureTabLength = 0
    /\ ~r.m_bReadStarted

\* The reader r has exactly one adapter, that of its back end, with its
\* handler, exactly one frame, the sentinel, no queued and no latched
\* feature, and has not started to read.
ParserFresh(r) ==
    /\ (r.oParser # NULL) = r.bUseExpatReader
    /\ (r.m_poSAXReader # NULL) = ~r.bUseExpatReader
    /\ r.m_poGMLHandler # NULL
    /\ r.m_poState = << NewReadState >>
    /\ r.m_poCompleteFeature = NULL
    /\ r.ppoFeatureTab = <<>>
    /\ r.nFeatureTabIndex = 0
    /\ r.nFeatureTabLength = 0
    /\ ~r.m_bReadStarted

\* SetupParser returns on r: VSIFOpenL is not called with a NULL name.
SetupReturns(r) == r.fpGML # NULL \/ r.m_pszFilename # NULL

\* once is r after one call of CleanupParser.
CleanupOnce(once) == ParserIdle(once) /\ CleanupParser(once) = once

\* once is what one call of SetupParser returned.
SetupOnce(once) ==
    /\ once.ret
    /\ ParserFresh(once.r)
    /\ SetupParser(once.r) = once

\* C21: from every reachable state, CleanupParser called twice leaves the
\* reader that one call leaves (no adapter, no frame, no queued or latched
\* feature, m_bReadStarted false); SetupParser called twice leaves the
\* reader that one call leaves (one adapter, one sentinel frame, no queued
\* or latched feature, m_bReadStarted false); and the destructor leaves no
\* adapter, frame or queued feature, also in the middle of a scan.
C21_SetupCleanupPaired ==
    /\ Running =>
         /\ CleanupOnce(CleanupParser(reader))
         /\ SetupReturns(reader) => SetupOnce(SetupParser(reader))
         /\ ParserIdle(Destructor(reader))
    /\ last.op = "CleanupParser" => ParserIdle(reader)
    /\ last.op = "SetupParser" /\ ~reader.aborted => ParserFresh(reader)
    /\ reader.destroyed => ParserIdle(reader)

\* A scan is in the middle of a feature, the feature nested in it having
\* been returned: the stack holds a frame with a partial feature above the
\* sentinel, and each of the three operations changes the reader.
C21_Witness ==
    /\ Running
    /\ Len(reader.m_poState) > 1
    /\ Top(reader).m_poFeature # NULL
    /\ last.op = "NextFeature" /\ last.ret # NULL
    /\ CleanupParser(reader) # reader
    /\ SetupParser(reader).r # reader
    /\ ~ParserIdle(reader)

\* The number of frames of the stack st that hold a feature.
RECURSIVE OpenFeatures(_)
OpenFeatures(st) ==
    IF st = <<>> THEN 0
    ELSE OpenFeatures(Tail(st)) + (IF Head(st).m_poFeature # NULL THEN 1 ELSE 0)

\* C22: while the reader has an adapter, the read-state stack has one
\* frame without a feature, its bottom frame; every frame above it holds a
\* feature that PushFeature created at a start tag, the frames being in the
\* order of their start tags, so the depth is one more than the number of
\* open features and the innermost open feature is the top frame's.
\* Without an adapter the stack is empty.
C22_StackShape ==
    IF NoParser(reader)
    THEN reader.m_poState = <<>>
    ELSE /\ reader.m_poState # <<>>
         /\ reader.m_poState[1].m_poFeature = NULL
         /\ \A i \in 2..Len(reader.m_poState) :
                /\ reader.m_poState[i].m_poFeature # NULL
                /\ reader.m_poState[i].m_poFeature[1].start > 0
                /\ reader.m_poState[i].m_poFeature[1].closed = 0
                /\ i > 2 => reader.m_poState[i-1].m_poFeature[1].start
                                < reader.m_poState[i].m_poFeature[1].start
         /\ Len(reader.m_poState) = 1 + OpenFeatures(reader.m_poState)

\* The scan has returned a feature of class B that is nested in a feature
\* still open: the stack holds the sentinel and the frame of that feature.
C22_Witness ==
    /\ ~NoParser(reader)
    /\ Len(reader.m_poState) = 2
    /\ last.op = "NextFeature"
    /\ last.ret # NULL
    /\ last.ret[1].start > Top(reader).m_poFeature[1].start

(***************************************************************************)
(* SpecFeat: IsFeatureElement asked, as the handler asks it at a start     *)
(* tag, about an element name under a parent element, with the class list *)
(* unlocked or locked.                                                     *)
(***************************************************************************)
s_embers == <<"e","m","b","e","r","s">>
s_a_layer == <<"a">> \o s_layer
s_a_feature == <<"a">> \o s_feature
s_A_feature == <<"A">> \o s_feature
s_b_feature == <<"b">> \o s_feature
s_featureMembers == s_featureMember \o <<"s">>

\* The parent elements (last path components) IsFeatureElement is asked on.
ParentNames ==
    { s_FC, s_dane, s_member, s_members, s_featureMember, s_featureMembers,
      s_embers, s_layer, s_a_layer, s_GeocodeResponseList,
      s_DetermineRouteResponse, s_RouteInstructionsList }

\* The element names it is asked about.
ElementNames ==
    { s_A, s_GeocodedAddress, s_RouteInstructionsList, s_RouteInstruction,
      s_feature, s_a_feature, s_A_feature, s_b_feature }

\* The byte that lies in memory in front of a path component, which
\* pszLast + nLen - 7 reaches when nLen is 6: any byte.
BytesBefore == { "?", "m", "M" }

\* Number of path components the top state is let grow to in SpecFeat.
MaxPath == 1

\* A sidecar file with one class, whose element name is a_feature.
FeatSidecars ==
    { [kind |-> "ok", children |-> << Child(s_A, s_a_feature, TRUE) >>] }

InitFeat == InitWith({ DocTokens(<<>>, "ok") }, {1})

DoLoadFeatSchema ==
    /\ Running
    /\ GetClassCount(reader) = 0
    /\ \E sidecar \in FeatSidecars :
           Finish(LoadClasses(reader, sidecar).r, cur, ended, prev, counted,
                  [op |-> "LoadClasses",
                   ret |-> << LoadClasses(reader, sidecar).ret >>])

\* The handler at the start tag of an element that is no feature element:
\* the element joins the path.
DoEnterElement ==
    /\ Running
    /\ reader.m_poState # <<>>
    /\ Len(Top(reader).m_papszPathComponents) < MaxPath
    /\ \E pszElement \in ParentNames :
           Finish(PushPath(reader, pszElement), cur, ended, prev, counted,
                  [op |-> "startElement", ret |-> NULL])

\* The handler at the end tag of such an element.
DoLeaveElement ==
    /\ Running
    /\ reader.m_poState # <<>>
    /\ Top(reader).m_papszPathComponents # <<>>
    /\ Finish(PopPath(reader), cur, ended, prev, counted,
              [op |-> "endElement", ret |-> NULL])

\* IsFeatureElement(pszElement); last.arg holds the last path component,
\* the element name and the byte in front of the path component.
DoIsFeatureElement ==
    /\ Running
    /\ reader.m_poState # <<>>
    /\ \E pszElement \in ElementNames, before \in BytesBefore :
           Finish(reader, cur, ended, prev, counted,
                  [op |-> "IsFeatureElement",
                   ret |-> << IsFeatureElement(reader, pszElement, before) >>,
                   arg |-> << GetLastComponent(Top(reader)), pszElement,
                              before >>])

NextFeat ==
    \/ DoSetSourceFile
    \/ DoLoadFeatSchema
    \/ DoSetupParser
    \/ DoEnterElement
    \/ DoLeaveElement
    \/ DoIsFeatureElement

SpecFeat == InitFeat /\ [][NextFeat]_vars

\* s ends in the string e.
EndsIn(s, e) == Len(s) >= Len(e) /\ Suffix(s, Len(e)) = e

\* s ends in the string e, letter case apart.
EndsInNoCase(s, e) == Len(s) >= Len(e) /\ EQUAL(Suffix(s, Len(e)), e)

\* One of the dialect rules applies to the element pszElement under the
\* parent pszLast: the parent is dane, GeocodedAddress in a
\* GeocodeResponseList, RouteInstruction in a RouteInstructionsList, or a
\* _feature element in a _layer element.
DialectRule(pszLast, pszElement) ==
    \/ pszLast = s_dane
    \/ pszLast = s_GeocodeResponseList /\ pszElement = s_GeocodedAddress
    \/ pszLast = s_RouteInstructionsList /\ pszElement = s_RouteInstruction
    \/ EndsIn(pszLast, s_layer) /\ EndsIn(pszElement, s_feature)

\* C24: with the class list unlocked and none of the dialect rules
\* applying, IsFeatureElement returns true only if the last path component
\* ends in member or members (in any letter case); under the sentinel
\* frame, the path being empty, it returns false.
C24_FallbackRule ==
    (last.op = "IsFeatureElement" /\ ~reader.m_bClassListLocked) =>
        /\ (~DialectRule(last.arg[1], last.arg[2]) /\ last.ret[1]) =>
               \/ EndsInNoCase(last.arg[1], s_member)
               \/ EndsInNoCase(last.arg[1], s_members)
        /\ last.arg[1] = <<>> => ~last.ret[1]

MaxRoute == 3

\* A RouteInstruction element: "e" empty, "p" with a child element n.
RouteTokens(k) ==
    IF k = "e"
    THEN << TStart(s_RouteInstruction, NULL), TEnd(s_RouteInstruction) >>
    ELSE << TStart(s_RouteInstruction, NULL), TStart(s_n, NULL),
            TChars(<<"1">>), TEnd(s_n), TEnd(s_RouteInstruction) >>

RECURSIVE RouteBody(_)
RouteBody(items) ==
    IF items = <<>> THEN <<>>
    ELSE RouteTokens(Head(items)) \o RouteBody(Tail(items))

RouteDoc(items) ==
    << TStart(s_DetermineRouteResponse, NULL),
       TStart(s_RouteInstructionsList, NULL) >>
    \o RouteBody(items)
    \o << TEnd(s_RouteInstructionsList), TEnd(s_DetermineRouteResponse) >>

RouteDocs ==
    { RouteDoc(items) : items \in UNION { [1..n -> {"e", "p"}] : n \in 0..MaxRoute } }

InitRoute == InitWith(RouteDocs, BufSizes)

NextRoute ==
    \/ DoSetSourceFile
    \/ DoNextFeature
    \/ DoResetReading

SpecRoute == InitRoute /\ [][NextRoute]_vars

\* The number of start tags of the element pszName in the document doc.
RECURSIVE CountStarts(_, _)
CountStarts(doc, pszName) ==
    IF doc = <<>> THEN 0
    ELSE CountStarts(Tail(doc), pszName)
         + (IF Head(doc).t = "start" /\ Head(doc).name = pszName THEN 1 ELSE 0)

\* C26: a scan of a route response with n RouteInstruction elements, the
\* class list unlocked, that has run until NextFeature returned NULL has
\* returned n features, each of the class RouteInstruction, and the
\* registry has no class for RouteInstructionsList.  (The reader reads the
\* document, and no earlier tokenizer failure has stopped it.)
C26_RouteInstructions ==
    (ended /\ reader.fpGML # NULL /\ ~reader.m_bStopParsing) =>
        /\ Len(cur) = CountStarts(reader.file, s_RouteInstruction)
        /\ \A i \in 1..Len(cur) :
               reader.m_papoClass[cur[i].m_poClass].m_pszName = s_RouteInstruction
        /\ GetClassByName(reader, s_RouteInstructionsList) = 0
        /\ GetClassByName(reader, s_DetermineRouteResponse) = 0

\* A scan of a response with MaxRoute instructions has come to its end.
C26_Witness ==
    /\ ended
    /\ reader.fpGML # NULL
    /\ ~reader.m_bStopParsing
    /\ ~reader.m_bClassListLocked
    /\ CountStarts(reader.file, s_RouteInstruction) = MaxRoute
    /\ Len(cur) = MaxRoute

\* The features of the frames of the state stack that have not closed.
PartialFeatures(r) == { f \in HeldFeatures(r) : f.closed = 0 }

\* C23: PopState on an empty stack changes nothing; a CleanupParser call on
\* a reader with an adapter leaves the stack empty, ppoFeatureTab empty
\* with index and length 0, no latched feature, no adapter, no handler and
\* m_bReadStarted false, so the reader holds none of the partial features
\* that were on the stack; and no NextFeature call returns a feature whose
\* element has not closed.
C23_CleanupDrains ==
    [][ /\ reader.m_poState = <<>> => PopState(reader) = reader
        /\ (last'.op = "CleanupParser" /\ ~NoParser(reader)) =>
               /\ ParserIdle(reader')
               /\ HeldFeatures(reader') = {}
        /\ (last'.op = "NextFeature" /\ last'.ret # NULL) =>
               /\ last'.ret[1].closed # 0
               /\ last'.ret[1] \notin PartialFeatures(reader)
      ]_vars

\* CleanupParser was called in the middle of a feature: it has popped the
\* frame of a partial feature and the sentinel.
C23_Witness ==
    /\ last.op = "CleanupParser"
    /\ last.arg[1] > 1
    /\ ParserIdle(reader)

(***************************************************************************)
(* SpecName: SetFeatureProperty called with a plain element name and with  *)
(* nested element paths that end in the same name.                         *)
(***************************************************************************)
s_name == <<"n","a","m","e">>
s_foo_name == <<"f","o","o","|">> \o s_name
s_bar_name == <<"b","a","r","|">> \o s_name

NamePaths == { s_name, s_foo_name, s_bar_name }
NameValues == { <<"X">>, <<"Y">> }

\* SetFeatureProperty as the handler calls it at the end tag of a property
\* element; last.arg is the element path of the call.
DoSetNamedProperty ==
    /\ Running
    /\ reader.m_poState # <<>>
    /\ Top(reader).m_poFeature # NULL
    /\ \E pszElement \in NamePaths, pszValue \in NameValues :
           Finish(SetFeatureProperty(reader, pszElement, pszValue), cur, ended,
                  prev, counted,
                  [op |-> "SetFeatureProperty", ret |-> NULL,
                   arg |-> << pszElement >>])

NextName ==
    \/ DoSetSourceFile
    \/ DoSetupParser
    \/ DoPushFeature
    \/ DoSetNamedProperty

SpecName == InitProp /\ [][NextName]_vars

\* The class poClass is unlocked, has a property with the field name and
\* the source element name, and none with the source element foo|name.
NameTaken(poClass) ==
    /\ ~poClass.m_bSchemaLocked
    /\ \E i \in 1..Len(poClass.m_papoProperty) :
           /\ poClass.m_papoProperty[i].m_pszName = s_name
           /\ poClass.m_papoProperty[i].m_pszSrcElement = s_name
    /\ FindProperty(poClass, s_foo_name) = Len(poClass.m_papoProperty) + 1

\* The class after has one property more than the class before; this
\* property has the field name pszName and the source element foo|name.
NameInserted(before, after, pszName) ==
    /\ Len(after.m_papoProperty) = Len(before.m_papoProperty) + 1
    /\ SubSeq(after.m_papoProperty, 1, Len(before.m_papoProperty))
           = before.m_papoProperty
    /\ after.m_papoProperty[Len(after.m_papoProperty)].m_pszName = pszName
    /\ after.m_papoProperty[Len(after.m_papoProperty)].m_pszSrcElement
           = s_foo_name

\* The step is a SetFeatureProperty call with the path foo|name on a class
\* that already has the property name.
NameCollisionStep ==
    /\ last'.op = "SetFeatureProperty"
    /\ last'.arg[1] = s_foo_name
    /\ reader.m_poState # <<>>
    /\ Top(reader).m_poFeature # NULL
    /\ NameTaken(TopClass(reader))

\* C27 as stated: on an unlocked class that has a property with the field
\* name and the source element name, SetFeatureProperty with the path
\* foo|name inserts a second property whose field name is name_.
C27_Original ==
    [][ NameCollisionStep =>
            NameInserted(TopClass(reader), TopClass(reader'),
                         s_name \o <<"_">>) ]_vars

\* C27, amended: on an unlocked class that has a property with the field
\* name and the source element name, SetFeatureProperty with the path
\* foo|name inserts a second property whose field name is the whole path
\* foo|name.
C27_NameCollision ==
    [][ NameCollisionStep =>
            NameInserted(TopClass(reader), TopClass(reader'), s_foo_name) ]_vars

\* The class of the current feature has the property name, then the
\* property of the path foo|name, which was just inserted.
C27_Witness ==
    /\ last.op = "SetFeatureProperty"
    /\ last.arg[1] = s_foo_name
    /\ Len(TopClass(reader).m_papoProperty) = 2
    /\ TopClass(reader).m_papoProperty[1].m_pszSrcElement = s_name
    /\ TopClass(reader).m_papoProperty[1].m_pszName = s_name
    /\ TopClass(reader).m_papoProperty[2].m_pszSrcElement = s_foo_name

(***************************************************************************)
(* SpecExt: prescans of documents whose features have geometries with and  *)
(* without an SRS name, an empty geometry, and geometries of two classes.  *)
(***************************************************************************)
ExtItemSeqs ==
    { <<"fA">>, <<"gE">>, <<"gP">>, <<"gS">>, <<"gE", "gP">>, <<"gP", "gL">>,
      <<"gP", "gS">>, <<"gS", "gL">>, <<"gP", "gLB">>, <<"gLB", "fA">> }
ExtDocs == { DocTokens(items, "ok") : items \in ExtItemSeqs }

InitExt ==
    /\ \E doc \in ExtDocs, bExpat \in BOOLEAN, bInvert \in BOOLEAN :
           reader = NewReaderWith(bExpat, bInvert, FALSE, doc, 1)
    /\ cur = <<>>
    /\ ended = FALSE
    /\ prev = NULL
    /\ counted = FALSE
    /\ last = [op |-> "new", ret |-> NULL]

NextExt ==
    \/ DoSetSourceFile
    \/ DoSetGlobalSRSName
    \/ DoPrescanWith

SpecExt == InitExt /\ [][NextExt]_vars

\* The features a scan of the document of r returns to a new reader with
\* the back end and the options of r.
ScannedFeatures(r) ==
    FullScan(SetSourceFile(NewReaderWith(r.bUseExpatReader,
                                         r.m_bInvertAxisOrderIfLatLong,
                                         r.m_bConsiderEPSGAsURN, r.file, r.nBuf),
                           "doc.gml")).got

\* The envelopes of the non-empty geometries that the geometry builder
\* makes of the features of class iClass out of feats.
ClassEnvelopes(feats, iClass, bInvert) ==
    { GML_BuildOGRGeometryFromList(feats[i].m_papsGeometry, bInvert)[1].env[1] :
          i \in { j \in FeaturesOfClass(feats, iClass) :
                      /\ feats[j].m_papsGeometry # <<>>
                      /\ feats[j].m_papsGeometry[1].env # NULL } }

\* The bounding box of a set of envelopes (xmin, xmax, ymin, ymax); absent
\* for the empty set.
BoundingBox(envs) ==
    IF envs = {} THEN NULL
    ELSE << << CHOOSE v \in { e[1] : e \in envs } : \A e \in envs : v <= e[1],
               CHOOSE v \in { e[2] : e \in envs } : \A e \in envs : v >= e[2],
               CHOOSE v \in { e[3] : e \in envs } : \A e \in envs : v <= e[3],
               CHOOSE v \in { e[4] : e \in envs } : \A e \in envs : v >= e[4] >> >>

\* The extents box exchanged as the loop over the classes does it.
SwappedBox(box) == IF box = NULL THEN NULL ELSE << SwapAxes(box[1]) >>

\* The axis order of the reader r is inverted, the global SRS name was
\* used in the prescan, and it names a lat/long system.
GlobalLatLong(r) ==
    /\ r.m_bInvertAxisOrderIfLatLong
    /\ r.m_bCanUseGlobalSRSName
    /\ GML_IsSRSLatLongOrder(r.m_pszGlobalSRSName)

\* The extents of class iClass of r are those of the box, exchanged once
\* if swap.
ExtentsAre(r, iClass, box, swap) ==
    r.m_papoClass[iClass].m_Extents = IF swap THEN SwappedBox(box) ELSE box

\* C28: after PrescanForSchema with extents, the extents of each class are
\* the bounding box (least xmin, greatest xmax, least ymin, greatest ymax)
\* of the envelopes of the class's non-empty geometries, absent if it has
\* none; exchanged to (ymin, ymax, xmin, xmax), once, when the axis order
\* is inverted, the global SRS name was used and it is a lat/long system,
\* and as accumulated in every other case.  Without extents asked for no
\* class has extents.
C28_PrescanExtents ==
    last.op = "PrescanForSchema" =>
        \A iClass \in 1..GetClassCount(reader) :
            IF last.arg = << TRUE >>
            THEN ExtentsAre(reader, iClass,
                            BoundingBox(ClassEnvelopes(
                                ScannedFeatures(reader), iClass,
                                reader.m_bInvertAxisOrderIfLatLong)),
                            GlobalLatLong(reader))
            ELSE reader.m_papoClass[iClass].m_Extents = NULL

\* A prescan with extents of a document with a point and a line string and
\* no SRS name, the global name being a lat/long one: the extents of the
\* class are the bounding box of both envelopes with the axes exchanged.
C28_Witness ==
    /\ last.op = "PrescanForSchema"
    /\ last.arg = << TRUE >>
    /\ GlobalLatLong(reader)
    /\ GetClassCount(reader) = 1
    /\ reader.m_papoClass[1].m_nFeatureCount = 2
    /\ reader.m_papoClass[1].m_Extents = << << 1, 4, 0, 3 >> >>

(***************************************************************************)
(* SpecStop: scans and prescans of documents with malformed text, with     *)
(* the parser set up again, cleaned up and reset after the failure.        *)
(***************************************************************************)
StopDocs ==
    { DocTokens(<<"fA">>, "ok"), DocTokens(<<"fA">>, "err"),
      DocTokens(<<"nest">>, "err"), DocTokens(<<"fA", "fB">>, "err"),
      DocTokens(<<"fA">>, "open"), DocTokens(<<>>, "err") }

InitStop == InitWith(StopDocs, BufSizes)

NextStop ==
    \/ DoSetSourceFile
    \/ DoNextFeature
    \/ DoSetupParser
    \/ DoCleanupParser
    \/ DoResetReading
    \/ DoPrescanForSchema

SpecStop == InitStop /\ [][NextStop]_vars

\* C29: once m_bStopParsing is set no operation clears it (NextFeature,
\* SetupParser, CleanupParser, ResetReading, PrescanForSchema,
\* SetSourceFile), and every NextFeature call made while it is set, that
\* is after the call that set it, returns NULL.
C29_StopAbsorbing ==
    [][ reader.m_bStopParsing =>
            /\ reader'.m_bStopParsing
            /\ last'.op = "NextFeature" => last'.ret = NULL ]_vars

\* A scan returned features and ended in a tokenizer failure; after
\* ResetReading the scan of the same document has returned NULL at once.
C29_Witness ==
    /\ reader.m_bStopParsing
    /\ last.op = "NextFeature"
    /\ last.ret = NULL
    /\ prev # NULL
    /\ Len(prev[1]) > 0
    /\ cur = <<>>
    /\ ended

\* C30: on every adapter of the Xerces driver parseNext is invoked only
\* after parseFirst was invoked on that adapter and returned true, and
\* parseFirst is invoked at most once; so a NextFeature call that follows
\* one that returned NULL for want of an input source, or because
\* parseFirst failed, does not invoke parseNext.
C30_PullProtocol ==
    reader.m_poSAXReader # NULL =>
        /\ ~reader.m_poSAXReader[1].unprimed
        /\ reader.m_poSAXReader[1].nFirst <= 1

(***************************************************************************)
(* SpecOwn: scans of flat and nested documents, complete or broken off,    *)
(* with CleanupParser, ResetReading and SetupParser called at any point.   *)
(* cur holds the features NextFeature has returned since the parser was    *)
(* last set up, cleaned up or reset.                                       *)
(***************************************************************************)
OwnItemSeqs == UNION { [1..n -> {"fA", "nest"}] : n \in 0..MaxItems }

\* The nested document broken off (malformed text) inside the inner feature.
NestOpenDoc == SubSeq(DocTokens(<<"nest">>, "err"), 1, 5) \o << TErr >>

OwnDocs ==
    { DocTokens(items, e) : items \in OwnItemSeqs, e \in Endings } \cup { NestOpenDoc }

InitOwn == InitWith(OwnDocs, BufSizes)

NextOwn ==
    \/ DoSetSourceFile
    \/ DoNextFeature
    \/ DoCleanupParser
    \/ DoResetReading
    \/ DoSetupParser

SpecOwn == InitOwn /\ [][NextOwn]_vars

\* delete m_poState in PopState: a feature that was not moved to the slot
\* or to the queue is still in the state and is deleted with it.
DeletedWithState(r) ==
    IF /\ ~r.bUseExpatReader
       /\ Top(r).m_poFeature # NULL
       /\ r.m_poCompleteFeature # NULL
    THEN Top(r).m_poFeature
    ELSE <<>>

RECURSIVE DeletedByPopAll(_)
\* The features deleted by while( m_poState ) PopState(), in order.
DeletedByPopAll(r) ==
    IF r.m_poState = <<>> THEN <<>>
    ELSE DeletedWithState(r) \o DeletedByPopAll(PopState(r))

\* The deletes of CleanupParser that free every entry of ppoFeatureTab,
\* also those NextFeature has returned.
DeletedAfterPopFromZero(d, p) ==
    d \o p.m_poCompleteFeature \o SubSeq(p.ppoFeatureTab, 1, p.nFeatureTabLength)

\* The deletes of CleanupParser after the pop loop, which deleted d and
\* left the reader p: delete m_poCompleteFeature, and
\* for(i=nFeatureTabIndex;i<nFeatureTabLength;i++) delete ppoFeatureTab[i].
DeletedAfterPop(d, p) ==
    d \o p.m_poCompleteFeature
      \o SubSeq(p.ppoFeatureTab, p.nFeatureTabIndex + 1, p.nFeatureTabLength)

\* The features a CleanupParser call on the reader r deletes, in order.
DeletedByCleanup(r) ==
    IF NoParser(r) THEN <<>> ELSE DeletedAfterPop(DeletedByPopAll(r), PopAll(r))

\* The start tags of the features of a sequence, and of a set: a parser
\* creates one feature object for a start tag.
StartsOf(feats) == { feats[i].start : i \in 1..Len(feats) }
StartsIn(held) == { f.start : f \in held }

\* No two entries of the sequence are the feature of the same start tag.
NoFeatureTwice(feats) ==
    \A i, j \in 1..Len(feats) : i # j => feats[i].start # feats[j].start

\* The features that CleanupParser, called by the operation op on the
\* reader r, deletes: SetupParser cleans up a parser that exists; NextFeature
\* calls SetupParser only without one.
DeletedByStep(op, r) ==
    IF op \in {"CleanupParser", "ResetReading", "SetupParser"}
    THEN DeletedByCleanup(r) ELSE <<>>

\* C31: single ownership.  A reader without a parser has returned no
\* feature of it and holds none.  Of the features of one parser, NextFeature
\* returns none twice; a CleanupParser call deletes none twice and none
\* that NextFeature has returned; the reader holds none that it has
\* returned; every feature the reader holds is deleted by the CleanupParser
\* call made in that state; and after every operation each feature the
\* reader held before it is still held, or has been returned by the
\* call, or was deleted by it.
C31_SingleOwnership ==
    /\ [](/\ NoParser(reader) => cur = <<>> /\ HeldFeatures(reader) = {}
          /\ NoFeatureTwice(cur)
          /\ NoFeatureTwice(DeletedByCleanup(reader))
          /\ StartsOf(DeletedByCleanup(reader)) \cap StartsOf(cur) = {}
          /\ StartsIn(HeldFeatures(reader)) \cap StartsOf(cur) = {}
          /\ StartsIn(HeldFeatures(reader)) = StartsOf(DeletedByCleanup(reader))
          /\ Cardinality(HeldFeatures(reader)) = Len(DeletedByCleanup(reader)))
    /\ [][ /\ StartsIn(HeldFeatures(reader)) \subseteq
                 StartsIn(HeldFeatures(reader'))
                 \cup (IF last'.op = "NextFeature" THEN StartsOf(last'.ret) ELSE {})
                 \cup StartsOf(DeletedByStep(last'.op, reader))
           /\ last'.op \in {"CleanupParser", "ResetReading", "SetupParser"} =>
                  HeldFeatures(reader') = {}
           /\ last'.op = "NextFeature" =>
                  StartsOf(last'.ret) \cap StartsIn(HeldFeatures(reader')) = {}
         ]_vars

\* The Expat driver has returned the first feature of a buffer that closed
\* two, the second is queued, and a CleanupParser call now deletes the
\* queued one.
C31_Witness ==
    /\ Len(cur) > 0
    /\ reader.nFeatureTabIndex > 0
    /\ reader.nFeatureTabIndex < reader.nFeatureTabLength
    /\ Len(DeletedByCleanup(reader)) > 0
    /\ last.op = "NextFeature"
    /\ last.ret # NULL

(***************************************************************************)
(* SpecEnd: a consumer that goes on calling NextFeature, on documents that *)
(* are complete, malformed or broken off and on a file that cannot be      *)
(* opened; ResetReading, CleanupParser and SetupParser start a scan anew.  *)
(* The consumer does not stop in the middle of a scan: a layer that reads  *)
(* features calls NextFeature until it returns NULL.                       *)
(***************************************************************************)
\* The documents of SpecOwn and a document that is malformed from its
\* first byte.
EndDocs == OwnDocs \cup { << TErr >> }

InitEnd == InitWith(EndDocs, BufSizes)

NextEnd ==
    \/ DoSetSourceFile
    \/ DoNextFeature
    \/ DoResetReading
    \/ DoCleanupParser
    \/ DoSetupParser

\* A NextFeature call can be made and the scan has not returned NULL.  In
\* such a state a DoNextFeature step changes the state: it lengthens cur,
\* sets ended or stops the program; so ScanOpen is where a NextFeature
\* step of an open scan is enabled.
ScanOpen == Running /\ ~ended

\* A NextFeature call of an open scan.
CallNextFeature == ~ended /\ DoNextFeature

\* Weak fairness of the NextFeature calls of an open scan: this is
\* WF_vars(CallNextFeature) with ENABLED <<CallNextFeature>>_vars written
\* out as the state predicate ScanOpen.
FairNextFeature == <>[]ScanOpen => []<><<CallNextFeature>>_vars

SpecEnd == InitEnd /\ [][NextEnd]_vars /\ FairNextFeature

\* The operations that start a scan anew.
RestartOps == {"ResetReading", "CleanupParser", "SetupParser"}

\* C32: scan termination and stable end of stream.  A scan returns at most
\* one feature for each token of the document; calls of NextFeature that
\* no other operation interrupts come to a call that returns NULL; once a
\* call has returned NULL every NextFeature call returns NULL until
\* ResetReading, CleanupParser or SetupParser is called; and a NextFeature
\* call on a reader whose file could not be opened returns NULL and leaves
\* the class registry as it was.
C32_StableEnd ==
    /\ [](Len(cur) <= Len(reader.file))
    /\ []<>(ended \/ last.op # "NextFeature" \/ ~Running)
    /\ [][ /\ (ended /\ last'.op = "NextFeature") =>
                  /\ last'.ret = NULL
                  /\ ended'
           /\ (ended /\ ~ended') => last'.op \in RestartOps
           /\ (last'.op = "NextFeature" /\ reader'.fpGML = NULL) =>
                  /\ last'.ret = NULL
                  /\ reader'.m_papoClass = reader.m_papoClass
         ]_vars

\* A scan has returned features and then NULL, without a tokenizer failure.
C32_Witness ==
    /\ ended
    /\ Len(cur) > 1
    /\ last = LastCall("NextFeature", NULL)
    /\ ~reader.m_bStopParsing
    /\ reader.fpGML # NULL

====
